---------------------------- MODULE Spec2Model ----------------------------
(***************************************************************************)
(* A model of the live VAD / archive / ASR pipeline of                     *)
(* src/src/eve/recorders/live_vad_recorder.py (class LiveVadRecorder).      *)
(*                                                                         *)
(* Threads: the orchestrator (start / _record_loop, on which stop() runs   *)
(* after a KeyboardInterrupt, see record_eve_24h.run_recording) and the    *)
(* single ASR worker (_asr_worker_loop).  Every region the code runs under *)
(* _asr_json_lock is one atomic step.                                      *)
(*                                                                         *)
(* Time: one clock unit is one sample period, so sample / sample_rate of   *)
(* the code is the sample count itself.  A chunk (and a block, as          *)
(* blocksize = chunk_samples) is ChunkLen samples, a wall-clock second is  *)
(* SecLen units.  The configuration values are the code's, scaled to       *)
(* these units.  The speech buffer carries, besides its length, the       *)
(* stream positions of its oldest and of its newest sample.                *)
(***************************************************************************)
EXTENDS Integers, Sequences, FiniteSets, TLC

\* ------------------------------------------------------------ bounds
MaxClock == 6
\* the clock bound of the runs with auto-switch enabled
MaxSwitchClock == 8
MaxJobs == 2
MaxThreads == 3
\* the largest auto_switch_confirmations and
\* auto_switch_max_candidates_per_scan of the runs that vary them
MaxConfirmations == 3
MaxPerScan == 2
\* blocks the audio callback can have put ahead of the capture loop
MaxAudioBlocks == 2
MaxDeviceErrors == 1
\* device errors in the runs with auto-switch (an unavailable period with a
\* second failure in it)
MaxSwitchDeviceErrors == 2
MaxEvents == 2
\* the number of sidecar writes of the runs that look inside a write
MaxWrites == 3

\* --------------------------------------------- configuration (scaled)
\* chunk_samples = int(sample_rate * chunk_ms / 1000)
ChunkLen == 2
\* sample_rate: samples (clock units) per wall-clock second
SecLen == 6
\* max_speech_segment_seconds, in clock units
MaxSpeechSegment == 4
\* min_silence_ms, in clock units
MinSilence == 2
\* the values of max_segment_minutes * 60 the recorder is started with:
\* a rotation interval shorter than one second, and one of one second
MaxSegmentChoices == {2, SecLen}
\* device_retry_seconds, in clock units
DeviceRetry == 2
\* auto_switch_scan_seconds, in clock units
ScanLen == 2
\* auto_switch_cooldown_seconds, in clock units
Cooldown == 5
\* auto_switch_confirmations
Confirmations == 2
\* auto_switch_max_candidates_per_scan
MaxCandidatesPerScan == 1
\* auto_switch_min_rms and auto_switch_min_ratio, on a scale of integer levels
MinRms == 2
MinRatio == 2
\* the input devices of the machine (indexes of sd.query_devices())
Devices == {0, 1, 2}
\* with auto-switching, one more: a phone offered as a microphone
SwitchDevices == Devices \cup {3}
\* the lowered names of devices; the recorder starts on the built-in
\* microphone
DeviceNames == {"macbook", "usb", "headset", "iphone", "iphone built-in"}
DeviceName == [i \in SwitchDevices |->
                 IF i = 0 THEN "macbook" ELSE IF i = 1 THEN "usb"
                 ELSE IF i = 2 THEN "headset" ELSE "iphone"]
\* the names that hold one of config.excluded_input_keywords ("iphone",
\* "continuity"), and those that hold "macbook", "built-in" or "internal"
ExcludedNames == {"iphone", "iphone built-in"}
PreferredNames == {"macbook", "iphone built-in"}
\* config.channels
Channels == 1
\* sd.query_devices() when the devices of a set are plugged in: index to
\* info
DeviceTable(present) ==
  [i \in present |-> [name |-> DeviceName[i], max_input_channels |-> Channels]]
\* the levels a probe of a candidate measures, and the levels of the
\* smoothed input of the current microphone (_last_input_rms)
RmsLevels == {0, 1, 4}
CurrentRmsLevels == {0, 2, 3}

\* the length of a serialized sidecar document, in blocks written one by one
DocLen == 2
\* who writes sidecars: the segmenter (_init_live_json, _finalize_live_json)
\* and the ASR worker (_append_live_segment)
JsonWriters == {"segmenter", "worker"}

None == -1
NoJob == [id |-> None, path |-> None, len |-> 0]
Sentinel == [id |-> None, path |-> None, len |-> None]
NoClose == [path |-> None]
Threads == 1..MaxThreads
NotStarted == [pc |-> "none", path |-> None]
NoOutcome == [res |-> "none", appended |-> FALSE, flagged |-> FALSE, warned |-> FALSE]
EmptyBuffer == [has |-> FALSE, len |-> 0, src |-> None, first |-> None, last |-> None]
NoFile == [exists |-> FALSE, status |-> "none", segs |-> <<>>, asr_enabled |-> "absent"]

\* `<prefix>_live_<YYYYMMDD_HHMMSS>`: the name of an archive is the
\* wall-clock second in which it is opened
Stamp(t) == t \div SecLen
Paths == 0..Stamp(MaxSwitchClock + 1)

VARIABLES
  \* environment
  clock,              \* time.time() / datetime.now()
  vadTriggered,       \* the VAD gate's own state: inside a speech run
  streamOpenClock,    \* when the current sd.InputStream was opened
  \* configuration
  transcriber,        \* self.transcriber is not None
  max_segment,        \* config.max_segment_minutes * 60
  auto_switch_enabled,       \* config.auto_switch_enabled
  requested_default_device,  \* the recorder was constructed with device "default"
  auto_switch_confirmations,            \* config.auto_switch_confirmations
  auto_switch_max_candidates_per_scan,  \* config.auto_switch_max_candidates_per_scan
  loud_device,        \* the environment: the microphone somebody speaks into
                      \* (None: any, the levels of a probe are free)
  \* device supervision
  device,             \* self.device, an input device index
  device_unavailable,
  error_since_open,   \* history: _handle_device_error has run since the last
                      \* stream open that succeeded
  switch_candidate,
  switch_candidate_hits,
  last_switch_time,          \* None: 0.0, the epoch, further back than any interval
  last_auto_switch_check,    \* None: 0.0, the epoch
  auto_switch_round_robin_offset,
  \* orchestrator
  stop_event,         \* self._stop_event.is_set()
  pc,
  writer,             \* self._writer is not None
  segment_start_time,
  stream_start_time,
  total_samples,
  in_speech,
  speech_start_time,
  speech_start_sample,
  pending_end_time,
  pending_end_sample,
  speech_buffer,      \* [has: the list is non-empty, len: samples in it,
                      \*  first, last: the stream positions of its oldest
                      \*  sample and right after its newest one,
                      \*  src: the archive its oldest samples went to]
  had_speech,
  segment_has_transcripts,
  live_json_path,
  deviceErrors,
  \* ASR worker and what it shares with the orchestrator
  wpc,
  cur,                \* the item the worker dequeued
  asr_outcome,        \* what the try block did with it (until the finally clause)
  asr_queue,
  asr_pending_jobs,   \* dict: sidecar path -> count
  files,              \* the sidecar documents on disk
  wav,                \* per archive on disk: it holds at least one frame
  nextJobId,
  \* the file system under one sidecar path
  sidecar_inode,      \* the file the sidecar path names
  inodes,             \* file -> its content, a sequence of blocks
  json_writer,        \* per writer, its position in write_json_atomic
  json_reader,        \* a reader of the sidecar in another process
  nextInode,
  \* the sidecar lock
  asr_json_lock,      \* who holds self._asr_json_lock: "none", "segmenter", "worker"
  json_data,          \* per thread: `data`, the document read inside the with block
  \* device health
  query_devices,        \* sd.query_devices(): index -> info
  selected_fallback,    \* what _select_fallback_input_device returned last
  device_fingerprint,   \* the (name, hostapi) of the device when opened
  device_list_snapshot,
  last_device_check,    \* None: 0.0, the epoch
  health_result,        \* of the last _check_device_health: "none" before any,
                        \* "skipped", "ok", "unavailable" (it raised)
  \* the other locks, and the queue of the audio callback
  console_state_lock,   \* who holds self._console_state_lock
  native_stderr_lock,   \* who holds self._native_stderr_lock
  audio_queue,          \* self._audio_queue: the number of blocks in it
  \* the worker threads
  asr_worker,           \* self._asr_worker: None or the thread it refers to
  asr_threads,          \* per thread ever created: where _asr_worker_loop is
  \* observation
  lastClose           \* what the last _finalize_live_json read and wrote
                      \* (kept until the next archive is opened)

healthVars == <<query_devices, selected_fallback, device_fingerprint,
                device_list_snapshot, last_device_check, health_result>>
envVars == <<clock, vadTriggered, streamOpenClock>>
cfgVars == <<transcriber, max_segment, auto_switch_enabled, requested_default_device,
             auto_switch_confirmations, auto_switch_max_candidates_per_scan,
             loud_device>>
devVars == <<device, device_unavailable, error_since_open>>
switchVars == <<switch_candidate, switch_candidate_hits, last_switch_time,
                last_auto_switch_check, auto_switch_round_robin_offset>>
speechVars == <<in_speech, speech_start_time, speech_start_sample, pending_end_time,
               pending_end_sample, speech_buffer>>
segVars == <<writer, segment_start_time, stream_start_time, total_samples,
             had_speech, live_json_path>>
workerVars == <<wpc, cur, asr_outcome>>
lockVars == <<asr_json_lock, json_data>>
stopVars == <<stop_event>>
threadVars == <<asr_worker, asr_threads>>
ioVars == <<console_state_lock, native_stderr_lock, audio_queue>>
storeVars == <<sidecar_inode, inodes, json_writer, json_reader, nextInode>>
vars == <<envVars, cfgVars, storeVars, healthVars, threadVars, ioVars, stopVars, lockVars, devVars, switchVars, pc, speechVars, segVars, segment_has_transcripts,
          deviceErrors, workerVars, asr_queue, asr_pending_jobs, files, wav,
          nextJobId, lastClose>>

\* ------------------------------------------------------------ helpers
Slice(a, b) == IF b > a THEN [i \in 1..(b - a) |-> a + i - 1] ELSE <<>>

PendingGet(p) == IF p \in DOMAIN asr_pending_jobs THEN asr_pending_jobs[p] ELSE 0

PendingPop(p) == [q \in (DOMAIN asr_pending_jobs) \ {p} |-> asr_pending_jobs[q]]

PendingSet(p, n) ==
  [q \in (DOMAIN asr_pending_jobs) \cup {p} |->
     IF q = p THEN n ELSE asr_pending_jobs[q]]


\* ------------------------------------------------------------ VAD gate
\* vad.detect_chunk(chunk): a list of {start: s} / {end: e} events, offsets
\* within the chunk, in chronological order, alternating with the gate's
\* own state (a speech run is non-empty).
Events == [kind : {"start", "end"}, pos : 0..ChunkLen]

EventSeqs == UNION {[1..n -> Events] : n \in 0..MaxEvents}

FirstKind(trig) == IF trig THEN "end" ELSE "start"

ValidEvents(trig, evs) ==
  /\ \A i \in 1..Len(evs) :
       /\ evs[i].kind = (IF i % 2 = 1 THEN FirstKind(trig) ELSE FirstKind(~trig))
       /\ evs[i].kind = "start" => evs[i].pos < ChunkLen
  /\ \A i \in 2..Len(evs) :
       IF evs[i].kind = "end" THEN evs[i].pos > evs[i-1].pos
                              ELSE evs[i].pos >= evs[i-1].pos

VadAfter(trig, evs) == IF Len(evs) % 2 = 1 THEN ~trig ELSE trig

\* The offsets of the chunk inside the intervals [start, end) of the gate.
RECURSIVE MarkWalk(_, _, _, _, _)
MarkWalk(evs, i, trig, from, acc) ==
  IF i > Len(evs)
  THEN IF trig THEN acc \o Slice(from, ChunkLen) ELSE acc
  ELSE IF evs[i].kind = "start"
       THEN MarkWalk(evs, i + 1, TRUE, evs[i].pos, acc)
       ELSE MarkWalk(evs, i + 1, FALSE, from,
                     IF trig THEN acc \o Slice(from, evs[i].pos) ELSE acc)

Marked(trig, evs) == MarkWalk(evs, 1, trig, 0, <<>>)

\* vad_events.sort(key=lambda item: item.get("start", item.get("end", 0))):
\* a stable sort by position (insertion sort).
RECURSIVE InsertEvent(_, _)
InsertEvent(e, sorted) ==
  IF sorted = <<>> THEN <<e>>
  ELSE IF sorted[Len(sorted)].pos <= e.pos THEN Append(sorted, e)
  ELSE Append(InsertEvent(e, SubSeq(sorted, 1, Len(sorted) - 1)), sorted[Len(sorted)])

RECURSIVE SortFrom(_, _, _)
SortFrom(evs, i, acc) ==
  IF i > Len(evs) THEN acc ELSE SortFrom(evs, i + 1, InsertEvent(evs[i], acc))

SortEvents(evs) == SortFrom(evs, 1, <<>>)

\* ---------------------------------------------------------- segmenter
\* self._writer.writeframes(segment) and self._speech_buffer.append(segment)
\* go together (lines 1036-1049): src is the archive whose PCM file
\* received the oldest samples in the buffer.
BufferAppend(buf, from, n) ==
  [has |-> TRUE, len |-> buf.len + n,
   src |-> IF buf.has THEN buf.src ELSE live_json_path,
   first |-> IF buf.has THEN buf.first ELSE total_samples + from,
   last |-> total_samples + from + n]

\* _reset_speech_state
ResetSpeechState(s) ==
  [s EXCEPT !.in_speech = FALSE, !.speech_start_time = None,
            !.speech_start_sample = None,
            !.pending_end_time = None, !.pending_end_sample = None]

\* The speech state the event walk of _record_loop works on.
WalkState ==
  [in_speech |-> in_speech, speech_start_time |-> speech_start_time,
   speech_start_sample |-> speech_start_sample,
   pending_end_time |-> pending_end_time,
   pending_end_sample |-> pending_end_sample, buf |-> speech_buffer,
   written |-> <<>>, had_speech |-> had_speech, cursor |-> 0, job |-> None,
   start_iso |-> None, end_iso |-> None, audio |-> EmptyBuffer]

\* One iteration of `for event in vad_events` (lines 1023-1045).
ApplyEvent(e, s) ==
  IF e.kind = "start"
  THEN IF ~s.in_speech
       THEN [s EXCEPT !.in_speech = TRUE,
                      !.speech_start_sample = total_samples + e.pos,
                      !.speech_start_time = stream_start_time + total_samples + e.pos,
                      !.pending_end_sample = None,
                      !.pending_end_time = None,
                      !.cursor = e.pos]
       ELSE [s EXCEPT !.cursor = e.pos]
  ELSE IF s.in_speech
       THEN [s EXCEPT !.buf = IF e.pos > s.cursor /\ transcriber
                              THEN BufferAppend(s.buf, s.cursor, e.pos - s.cursor)
                              ELSE s.buf,
                      !.written = s.written \o Slice(s.cursor, e.pos),
                      !.had_speech = TRUE,
                      !.pending_end_sample = total_samples + e.pos,
                      !.pending_end_time = clock,
                      !.in_speech = FALSE,
                      !.cursor = e.pos]
       ELSE s

RECURSIVE WalkEvents(_, _, _)
WalkEvents(evs, i, s) ==
  IF i > Len(evs) THEN s ELSE WalkEvents(evs, i + 1, ApplyEvent(evs[i], s))

\* _should_rotate_speech
ShouldRotateSpeech(s) ==
  /\ s.speech_start_time # None
  /\ clock - s.speech_start_time >= MaxSpeechSegment

\* `x or y` on an int or None
OrElse(x, y) == IF x = None \/ x = 0 THEN y ELSE x

\* _finalize_speech_segment: job is the length of the audio handed to
\* _queue_asr_segment (None: nothing is enqueued), audio the buffer it is
\* concatenated from, start_iso and end_iso its labels (lines 964-969).
FinalizeSpeechSegment(s, end_sample) ==
  IF ~s.buf.has THEN ResetSpeechState(s)
  ELSE IF ~transcriber THEN ResetSpeechState([s EXCEPT !.buf = EmptyBuffer])
  ELSE ResetSpeechState(
         [s EXCEPT !.buf = EmptyBuffer, !.job = s.buf.len, !.audio = s.buf,
                   !.start_iso = stream_start_time + OrElse(s.speech_start_sample, 0),
                   !.end_iso = stream_start_time + end_sample])

\* AfterEvents without its test of in_speech: the rest of every chunk is
\* taken for speech.
AfterEventsUngated(s) ==
  LET t == [s EXCEPT !.buf = IF transcriber
                             THEN BufferAppend(s.buf, s.cursor, ChunkLen - s.cursor)
                             ELSE s.buf,
                     !.written = s.written \o Slice(s.cursor, ChunkLen),
                     !.had_speech = TRUE]
  IN IF ShouldRotateSpeech(t)
          THEN FinalizeSpeechSegment(t, total_samples + ChunkLen) ELSE t

\* After the events of a chunk (lines 1046-1059).
AfterEvents(s) ==
  IF s.in_speech
  THEN LET t == [s EXCEPT !.buf = IF transcriber
                                  THEN BufferAppend(s.buf, s.cursor, ChunkLen - s.cursor)
                                  ELSE s.buf,
                          !.written = s.written \o Slice(s.cursor, ChunkLen),
                          !.had_speech = TRUE]
       IN IF ShouldRotateSpeech(t)
          THEN FinalizeSpeechSegment(t, total_samples + ChunkLen) ELSE t
  ELSE IF s.pending_end_time # None /\ clock - s.pending_end_time >= MinSilence
       THEN FinalizeSpeechSegment(s, OrElse(s.pending_end_sample, total_samples))
       ELSE s

\* The chunk ends in speech and _should_rotate_speech answers yes
\* (lines 1046-1054): the forced flush.
ForcedFlush(evs) ==
  LET w == WalkEvents(SortEvents(evs), 1, WalkState)
  IN w.in_speech /\ ShouldRotateSpeech(w)

\* The body of `for offset in range(...)` for one chunk (lines 1018-1060).
ProcessChunk(evs) == AfterEvents(WalkEvents(SortEvents(evs), 1, WalkState))


\* --------------------------------------------------------- sidecar store
\* Jobs naming sidecar p that the worker has not finished: still in the
\* queue, or dequeued and not yet counted down.
CountPath(q, p) == Cardinality({i \in 1..Len(q) : q[i].path = p})

Outstanding(p, q, c, w) ==
  CountPath(q, p) +
    (IF w \in {"busy", "append", "append_write", "dec"} /\ c.path = p THEN 1 ELSE 0)

\* "asr_enabled": self.transcriber is not None, as the document holds it
AsrEnabled == IF transcriber THEN "true" ELSE "false"

\* FinalStatus that treats a recorder without transcriber like one with.
FinalStatusIgnoresDisabled(prior, tr, hasT, had, pending) ==
  IF prior = "ok" THEN "ok"
  ELSE IF hasT THEN "ok"
  ELSE IF pending > 0 THEN "pending_asr"
  ELSE IF ~had THEN "no_speech" ELSE "no_text"

\* FinalStatus without its look at the pending count.
FinalStatusNoPending(prior, tr, hasT, had, pending) ==
  IF prior = "ok" THEN "ok"
  ELSE IF ~tr THEN (IF had THEN "pending_asr" ELSE "no_speech")
  ELSE IF hasT THEN "ok"
  ELSE IF ~had THEN "no_speech" ELSE "no_text"

\* The status computation of _finalize_live_json (lines 872-886).
FinalStatus(prior, tr, hasT, had, pending) ==
  IF prior = "ok" THEN "ok"
  ELSE IF ~tr THEN (IF had THEN "pending_asr" ELSE "no_speech")
  ELSE IF hasT THEN "ok"
  ELSE IF pending > 0 THEN "pending_asr"
  ELSE IF ~had THEN "no_speech" ELSE "no_text"

\* _finalize_live_json on document f (NoFile: the read fails, data = {}).
FinalizedFile(f, pending) ==
  [exists |-> TRUE,
   status |-> FinalStatus(f.status, transcriber, segment_has_transcripts,
                          had_speech, pending),
   segs |-> f.segs,
   asr_enabled |-> IF f.asr_enabled = "absent" THEN AsrEnabled ELSE f.asr_enabled]

\* What a close read and wrote.
CloseRecord(p, f, pending, q) ==
  [path |-> p, prior |-> f.status, had |-> had_speech,
   hasT |-> segment_has_transcripts, pending |-> pending,
   audio |-> wav[p],
   outstanding |-> Outstanding(p, q, cur, wpc),
   nsegs |-> Len(f.segs),
   status |-> FinalizedFile(f, pending).status]

\* _close_stream, with the pending table and the queue as they are when it
\* is called.
CloseStream(pend, q) ==
  /\ writer' = FALSE
  /\ segment_start_time' = None
  /\ IF live_json_path = None
     THEN UNCHANGED <<files, lastClose>>
     ELSE LET p == live_json_path
              n == IF p \in DOMAIN pend THEN pend[p] ELSE 0
          IN /\ files' = [files EXCEPT ![p] = FinalizedFile(files[p], n)]
             /\ lastClose' = CloseRecord(p, files[p], n, q)

\* _reset_stream_state (without the fields _close_stream has just set;
\* _last_input_rms is an input of the scan)
ResetStreamState ==
  /\ switch_candidate' = None
  /\ switch_candidate_hits' = 0
  /\ speech_buffer' = EmptyBuffer
  /\ in_speech' = FALSE
  /\ speech_start_time' = None
  /\ speech_start_sample' = None
  /\ pending_end_time' = None
  /\ pending_end_sample' = None
  /\ total_samples' = 0
  /\ stream_start_time' = None
  /\ had_speech' = FALSE
  /\ segment_has_transcripts' = FALSE

\* _open_live_file up to the pop of the pending entry (lines 804-826)
OpenLiveFile ==
  /\ asr_json_lock = "none"     \* with self._asr_json_lock (line 825)
  /\ writer' = TRUE
  /\ segment_start_time' = clock
  /\ stream_start_time' = clock
  /\ live_json_path' = Stamp(clock)
  /\ had_speech' = FALSE
  /\ segment_has_transcripts' = FALSE
  /\ wav' = [wav EXCEPT ![Stamp(clock)] = FALSE]
  /\ asr_pending_jobs' = PendingPop(Stamp(clock))
  /\ lastClose' = NoClose

\* _should_rotate
ShouldRotate ==
  /\ segment_start_time # None
  /\ clock - segment_start_time >= max_segment

\* -------------------------------------------------------------- actions
InitRecorder ==
  /\ clock = 0 /\ vadTriggered = FALSE /\ streamOpenClock = 0
  /\ transcriber \in BOOLEAN
  /\ max_segment \in MaxSegmentChoices
  /\ device_unavailable = FALSE
  /\ error_since_open = FALSE
  /\ switch_candidate = None /\ switch_candidate_hits = 0
  /\ last_switch_time = None /\ last_auto_switch_check = None
  /\ auto_switch_round_robin_offset = 0
  /\ sidecar_inode = 0
  /\ inodes = [n \in 0..(MaxWrites + 1) |-> IF n = 0 THEN [i \in 1..DocLen |-> 0] ELSE <<>>]
  /\ json_writer = [w \in JsonWriters |-> [pc |-> "idle", inode |-> None]]
  /\ json_reader = [pc |-> "idle", inode |-> None, got |-> <<>>]
  /\ nextInode = 1
  /\ stop_event = FALSE
  /\ asr_json_lock = "none"
  /\ json_data = [t \in JsonWriters |-> NoFile]
  /\ pc = "init"
  /\ writer = FALSE
  /\ segment_start_time = None /\ stream_start_time = None
  /\ total_samples = 0
  /\ in_speech = FALSE
  /\ speech_start_time = None /\ pending_end_time = None
  /\ speech_start_sample = None /\ pending_end_sample = None
  /\ speech_buffer = EmptyBuffer
  /\ had_speech = FALSE /\ segment_has_transcripts = FALSE
  /\ live_json_path = None
  /\ deviceErrors = 0
  /\ wpc = "none" /\ cur = NoJob /\ asr_outcome = NoOutcome
  /\ asr_queue = <<>>
  /\ asr_pending_jobs = << >>
  /\ files = [p \in Paths |-> NoFile]
  /\ wav = [p \in Paths |-> FALSE]
  /\ nextJobId = 0
  /\ lastClose = NoClose

\* self._device_fingerprint = None and self._device_list_snapshot = None
NoFingerprint == ""
NoSnapshot == [taken |-> FALSE, list |-> << >>]
\* _snapshot_device_list
SnapshotDeviceList(devs) == [taken |-> TRUE, list |-> devs]

\* The supervision state of __init__ (lines 110-113); _last_device_check = 0.0
\* is a time long past: None.
\* __init__: both locks free, the audio queue empty, no worker thread.
InitThreadState ==
  /\ console_state_lock = "none"
  /\ native_stderr_lock = "none"
  /\ audio_queue = 0
  /\ asr_worker = None
  /\ asr_threads = [t \in Threads |-> NotStarted]

InitHealthState ==
  /\ InitThreadState
  /\ selected_fallback = None
  /\ device_fingerprint = NoFingerprint
  /\ device_list_snapshot = NoSnapshot
  /\ last_device_check = None
  /\ health_result = "none"

\* The scan settings of the runs that do not vary them.
InitScanConfig ==
  /\ auto_switch_confirmations = Confirmations
  /\ auto_switch_max_candidates_per_scan = MaxCandidatesPerScan
  /\ loud_device = None

InitState ==
  /\ InitRecorder
  /\ InitScanConfig
  /\ device = 0
  /\ query_devices = DeviceTable(Devices)
  /\ InitHealthState

\* The recorder started on the default device with --no-auto-switch-device.
Init ==
  /\ InitState
  /\ auto_switch_enabled = FALSE
  /\ requested_default_device = TRUE

\* The bound on device errors of the run.
DeviceErrorBound ==
  IF auto_switch_enabled THEN MaxSwitchDeviceErrors ELSE MaxDeviceErrors

\* The clock bound of the run.
ClockBound == IF auto_switch_enabled THEN MaxSwitchClock ELSE MaxClock

\* Time passes.  The step is taken where the orchestrator is about to read
\* the clock (_open_live_file, the chunk loop); the worker never reads it.
Tick ==
  /\ pc \in {"connect", "loop", "rotate_open"}
  /\ clock < ClockBound
  /\ clock' = clock + 1
  /\ UNCHANGED <<vadTriggered, streamOpenClock, cfgVars, storeVars, healthVars, threadVars, ioVars, stopVars, lockVars, devVars, switchVars, pc, speechVars, segVars,
                 segment_has_transcripts, deviceErrors, workerVars, asr_queue,
                 asr_pending_jobs, files, nextJobId, wav, lastClose>>

\* start(): _start_asr_worker, then the recovery loop
Start ==
  /\ pc = "init"
  /\ pc' = "connect"
  /\ wpc' = IF transcriber THEN "idle" ELSE "none"
  /\ UNCHANGED <<envVars, cfgVars, storeVars, healthVars, threadVars, ioVars, stopVars, lockVars, devVars, switchVars, speechVars, segVars, segment_has_transcripts,
                 deviceErrors, cur, asr_outcome, asr_queue, asr_pending_jobs, files,
                 nextJobId, wav, lastClose>>

\* _record_loop: the stream opens, then _open_live_file; with
\* _device_unavailable set, "Microphone restored. Resuming recording." is
\* logged and the flag cleared (lines 995-998)
Connect ==
  /\ pc = "connect"
  /\ ~stop_event                \* while not self._stop_event.is_set() (line 1070)
  /\ streamOpenClock' = clock
  /\ OpenLiveFile
  /\ device_unavailable' = FALSE
  /\ error_since_open' = FALSE
  /\ pc' = "open_init"
  /\ UNCHANGED <<clock, vadTriggered, cfgVars, storeVars, healthVars, threadVars, ioVars, stopVars, lockVars, device, switchVars, speechVars, total_samples,
                 deviceErrors, workerVars, asr_queue, files, nextJobId>>

\* _init_live_json (line 827; it does not take the lock)
InitLiveJson ==
  /\ pc = "open_init"
  /\ files' = [files EXCEPT ![live_json_path] =
                 [exists |-> TRUE, status |-> "recording", segs |-> <<>>,
                  asr_enabled |-> AsrEnabled]]
  /\ pc' = "loop"
  /\ UNCHANGED <<envVars, cfgVars, storeVars, healthVars, threadVars, ioVars, stopVars, lockVars, devVars, switchVars, speechVars, segVars, segment_has_transcripts,
                 deviceErrors, workerVars, asr_queue, asr_pending_jobs,
                 nextJobId, wav, lastClose>>

\* One block of _record_loop: the chunk goes through the VAD and the
\* segmenter (lines 1002-1060), then _should_rotate is asked (line 1063).
\* A block is there only once its samples have been captured.
ProcessBlock(evs) ==
  /\ pc = "loop"
  /\ ~stop_event                \* while not self._stop_event.is_set() (line 999)
  /\ nextJobId < MaxJobs
  /\ clock >= streamOpenClock + total_samples + ChunkLen
  /\ ValidEvents(vadTriggered, evs)
  /\ LET s == ProcessChunk(evs)
     IN /\ s.job # None => asr_json_lock = "none"   \* _queue_asr_segment (line 942)
        /\ in_speech' = s.in_speech
        /\ speech_start_time' = s.speech_start_time
        /\ speech_start_sample' = s.speech_start_sample
        /\ pending_end_time' = s.pending_end_time
        /\ pending_end_sample' = s.pending_end_sample
        /\ speech_buffer' = s.buf
        /\ had_speech' = s.had_speech
        /\ total_samples' = total_samples + ChunkLen
        /\ IF s.job # None
           THEN /\ asr_pending_jobs' =
                     PendingSet(live_json_path, PendingGet(live_json_path) + 1)
                /\ asr_queue' = Append(asr_queue,
                     [id |-> nextJobId, path |-> live_json_path, len |-> s.job])
                /\ nextJobId' = nextJobId + 1
           ELSE UNCHANGED <<asr_pending_jobs, asr_queue, nextJobId>>
        /\ wav' = IF s.written # <<>> THEN [wav EXCEPT ![live_json_path] = TRUE]
                  ELSE wav
        /\ vadTriggered' = VadAfter(vadTriggered, evs)
  /\ pc' = IF auto_switch_enabled THEN "scan"
           ELSE IF ShouldRotate THEN "rotate_close" ELSE "loop"
  /\ UNCHANGED <<clock, streamOpenClock, cfgVars, storeVars, healthVars, threadVars, ioVars, stopVars, lockVars, devVars, switchVars, writer, segment_start_time,
                 stream_start_time, live_json_path, segment_has_transcripts,
                 deviceErrors, workerVars, files, lastClose>>

\* if self._should_rotate(): self._close_stream() (lines 1063-1064)
RotateClose ==
  /\ pc = "rotate_close"
  /\ CloseStream(asr_pending_jobs, asr_queue)
  /\ pc' = "rotate_open"
  /\ UNCHANGED <<envVars, cfgVars, storeVars, healthVars, threadVars, ioVars, stopVars, lockVars, devVars, switchVars, speechVars, stream_start_time, total_samples,
                 had_speech, live_json_path, segment_has_transcripts,
                 deviceErrors, workerVars, asr_queue, asr_pending_jobs,
                 nextJobId, wav>>

\* ... self._open_live_file() (line 1065)
RotateOpen ==
  /\ pc = "rotate_open"
  /\ OpenLiveFile
  /\ pc' = "open_init"
  /\ UNCHANGED <<envVars, cfgVars, storeVars, healthVars, threadVars, ioVars, stopVars, lockVars, devVars, switchVars, speechVars, total_samples, deviceErrors,
                 workerVars, asr_queue, files, nextJobId>>

\* _is_excluded_input_device with no keyword configured.
NothingExcluded(info) == FALSE

\* _is_excluded_input_device
IsExcludedInputDevice(info) == info.name \in ExcludedNames

\* the indexes in increasing order: for idx, info in enumerate(devices)
RECURSIVE ListInputDevices(_)
ListInputDevices(present) ==
  IF present = {} THEN <<>>
  ELSE LET m == CHOOSE x \in present : \A y \in present : x <= y
       IN <<m>> \o ListInputDevices(present \ {m})

\* _list_input_devices: the indexes with enough input channels, the
\* excluded ones skipped unless include_excluded
InputIndexes(devs, include_excluded) ==
  {i \in DOMAIN devs :
     /\ devs[i].max_input_channels >= Channels
     /\ (include_excluded \/ ~IsExcludedInputDevice(devs[i]))}

\* _select_fallback_input_device that does not retry with the excluded
\* devices.
SelectFallbackNoRetry(devs) ==
  LET indexes == InputIndexes(devs, FALSE)
      preferred == {i \in indexes : devs[i].name \in PreferredNames}
  IN IF indexes = {} THEN None
     ELSE IF preferred # {} THEN ListInputDevices(preferred)[1]
     ELSE ListInputDevices(indexes)[1]

\* _select_fallback_input_device: the first listed device with a preferred
\* name, else the first listed one; the excluded devices are listed only
\* when no other is (None: no input device at all)
SelectFallbackInputDevice(devs) ==
  LET first == InputIndexes(devs, FALSE)
      indexes == IF first = {} THEN InputIndexes(devs, TRUE) ELSE first
      preferred == {i \in indexes : devs[i].name \in PreferredNames}
  IN IF indexes = {} THEN None
     ELSE IF preferred # {} THEN ListInputDevices(preferred)[1]
     ELSE ListInputDevices(indexes)[1]

\* the fallback for each set of plugged-in devices
FallbackIndex ==
  [present \in SUBSET SwitchDevices |-> SelectFallbackInputDevice(DeviceTable(present))]

\* _handle_device_error that raises the flag only on its retry path.
MarkUnavailableOnRetryOnly(switched) ==
  IF switched THEN device_unavailable ELSE TRUE

\* _device_unavailable after _handle_device_error: set where it switches to
\* the fallback device (line 783) and where it is about to wait (line 792)
MarkUnavailable(switched) == TRUE

\* the test of line 995: the stream open that succeeds now logs
\* "Microphone restored. Resuming recording."
LogsMicrophoneRestored == device_unavailable

\* DeviceUnavailableError / sd.PortAudioError out of _record_loop (from
\* _preflight_device, the stream open, or _check_device_health); start()
\* runs _handle_device_error.  present: the input devices
\* sd.query_devices() lists when the handler runs.
DeviceError(present) ==
  /\ pc \in {"connect", "loop"}
  /\ ~stop_event                \* raised inside a loop the flag has let run
  /\ deviceErrors < DeviceErrorBound
  /\ deviceErrors' = deviceErrors + 1
  /\ CloseStream(asr_pending_jobs, asr_queue)
  /\ ResetStreamState
  /\ error_since_open' = TRUE
  /\ LET fallback_index == FallbackIndex[present]
         switched == /\ requested_default_device \/ auto_switch_enabled
                     /\ fallback_index # None
                     /\ fallback_index # device
     IN /\ device_unavailable' = MarkUnavailable(switched)
        /\ IF switched
           THEN device' = fallback_index /\ pc' = "connect"
           ELSE device' = device /\ pc' = "retry"
  /\ UNCHANGED <<envVars, cfgVars, storeVars, healthVars, threadVars, ioVars, stopVars, lockVars, last_switch_time, last_auto_switch_check,
                 auto_switch_round_robin_offset, live_json_path, workerVars,
                 asr_queue, asr_pending_jobs, nextJobId, wav>>

\* self._stop_event.wait(timeout=retry_seconds) (lines 793-794)
RetryWait ==
  /\ pc = "retry"
  /\ ~stop_event                \* the wait runs its full time
  /\ clock + DeviceRetry <= ClockBound
  /\ clock' = clock + DeviceRetry
  /\ pc' = "connect"
  /\ UNCHANGED <<vadTriggered, streamOpenClock, cfgVars, storeVars, healthVars, threadVars, ioVars, stopVars, lockVars, devVars, switchVars,
                 speechVars, segVars, segment_has_transcripts, deviceErrors,
                 workerVars, asr_queue, asr_pending_jobs, files, nextJobId, wav,
                 lastClose>>

\* stop() from line 1084 on: the speech segment in progress is finalized,
\* the stream closed, the sentinel put (_stop_asr_worker)
StopTeardown ==
  LET s == IF in_speech THEN FinalizeSpeechSegment(WalkState, total_samples) ELSE WalkState
      enq == s.job # None /\ live_json_path # None
      pend == IF enq
              THEN PendingSet(live_json_path, PendingGet(live_json_path) + 1)
              ELSE asr_pending_jobs
      q == IF enq
           THEN Append(asr_queue,
                  [id |-> nextJobId, path |-> live_json_path, len |-> s.job])
           ELSE asr_queue
  IN /\ in_speech' = s.in_speech
     /\ speech_start_time' = s.speech_start_time
     /\ speech_start_sample' = s.speech_start_sample
     /\ pending_end_time' = s.pending_end_time
     /\ pending_end_sample' = s.pending_end_sample
     /\ speech_buffer' = s.buf
     /\ asr_pending_jobs' = pend
     /\ nextJobId' = IF enq THEN nextJobId + 1 ELSE nextJobId
     /\ CloseStream(pend, q)
     /\ asr_queue' = IF wpc # "none" THEN Append(q, Sentinel) ELSE q

\* stop(), after the KeyboardInterrupt that ends start()
Stop ==
  /\ pc \notin {"init", "stopped", "crashed", "returned"}
  /\ stop_event' = TRUE
  /\ StopTeardown
  /\ pc' = "stopped"
  /\ UNCHANGED <<envVars, cfgVars, storeVars, healthVars, threadVars, ioVars, lockVars, devVars, switchVars, stream_start_time, total_samples, had_speech,
                 live_json_path, segment_has_transcripts, deviceErrors,
                 workerVars, wav>>

\* ----------------------------------------------------------- auto-switch
\* candidate_indexes (lines 559-563)
\* (tabulated by the listed devices and the device in use)
InputCandidates ==
  [present \in SUBSET SwitchDevices |->
     [current \in SwitchDevices |->
        ListInputDevices(InputIndexes(DeviceTable(present), FALSE) \ {current})]]

CandidateIndexes(present) == InputCandidates[present][device]

\* max_candidates = max(1, int(config.auto_switch_max_candidates_per_scan))
MaxCandidates ==
  IF auto_switch_max_candidates_per_scan > 1
  THEN auto_switch_max_candidates_per_scan ELSE 1

\* probe_indexes: the round-robin window (lines 567-578)
ProbeIndexes(cands) ==
  IF Len(cands) > MaxCandidates
  THEN LET start == auto_switch_round_robin_offset % Len(cands)
       IN [i \in 1..MaxCandidates |-> cands[((start + i - 1) % Len(cands)) + 1]]
  ELSE cands

\* the devices one scan probes
Probed(present) ==
  LET probe == ProbeIndexes(CandidateIndexes(present))
  IN {probe[i] : i \in 1..Len(probe)}

RoundRobinOffset(cands) ==
  IF Len(cands) > MaxCandidates
  THEN ((auto_switch_round_robin_offset % Len(cands)) + MaxCandidates) % Len(cands)
  ELSE 0

\* best_index, best_rms (lines 579-585): the first of the loudest probes
RECURSIVE BestProbe(_, _, _, _)
BestProbe(probe, rms, i, best) ==
  IF i > Len(probe) THEN best
  ELSE BestProbe(probe, rms, i + 1,
                 IF rms[probe[i]] > best.rms
                 THEN [index |-> probe[i], rms |-> rms[probe[i]]]
                 ELSE best)

\* _mark_switch_candidate with hits added for every device, new or not.
MarkSwitchCandidateNoReset(d) ==
  [candidate |-> d, hits |-> switch_candidate_hits + 1]

\* _mark_switch_candidate: the candidate and its count after the call
MarkSwitchCandidate(d) ==
  [candidate |-> d,
   hits |-> IF switch_candidate = d THEN switch_candidate_hits + 1 ELSE 1]

\* InCooldown that never holds.
NoCooldown(now) == FALSE

\* cooldown > 0 and now - self._last_switch_time < cooldown (line 556)
InCooldown(now) ==
  Cooldown > 0 /\ last_switch_time # None /\ now - last_switch_time < Cooldown

\* now - self._last_auto_switch_check < interval (line 549)
ScanGated(now) ==
  last_auto_switch_check # None /\ now - last_auto_switch_check < ScanLen

\* The ratio test that every candidate passes.
RatioAlwaysMet(best_rms, current_rms) == FALSE

\* current_rms >= min_rms and best_rms < current_rms * min_ratio (line 592)
BelowRatio(best_rms, current_rms) ==
  current_rms >= MinRms /\ best_rms < current_rms * MinRatio

\* What one call of _check_auto_switch decides.  present: the devices
\* sd.query_devices() lists; rms: what a probe of each other one measures;
\* input_rms: _last_input_rms.  kind: "gated" (the interval has not elapsed),
\* "speech", "cooldown", "clear" (no winner), "mark" (a winner, not yet
\* confirmed), "switch".
ScanResult(present, rms, input_rms) ==
  LET keep == [kind |-> "gated", candidate |-> switch_candidate,
               hits |-> switch_candidate_hits,
               offset |-> auto_switch_round_robin_offset,
               check |-> last_auto_switch_check, winner |-> None]
      clear == [keep EXCEPT !.kind = "clear", !.candidate = None, !.hits = 0,
                            !.check = clock]
      cands == CandidateIndexes(present)
      best == BestProbe(ProbeIndexes(cands), rms, 1, [index |-> None, rms |-> 0])
      probed == [clear EXCEPT !.offset = RoundRobinOffset(cands)]
      mark == MarkSwitchCandidate(best.index)
  IN IF ScanGated(clock) THEN keep
     ELSE IF in_speech THEN [clear EXCEPT !.kind = "speech"]
     ELSE IF InCooldown(clock) THEN [keep EXCEPT !.kind = "cooldown", !.check = clock]
     ELSE IF cands = <<>> THEN clear
     ELSE IF best.index = None \/ best.rms < MinRms THEN probed
     ELSE IF BelowRatio(best.rms, input_rms) THEN probed
     ELSE IF mark.hits < (IF auto_switch_confirmations > 1
                          THEN auto_switch_confirmations ELSE 1)
          THEN [probed EXCEPT !.kind = "mark", !.candidate = mark.candidate,
                              !.hits = mark.hits, !.winner = best.index]
          ELSE [probed EXCEPT !.kind = "switch", !.winner = best.index]

\* _check_auto_switch (line 1062), then the rotation test of the same loop
\* iteration (line 1063); a DeviceSwitchRequest goes to start(), which runs
\* _handle_device_switch (lines 796-801).
CheckAutoSwitch(present, rms, input_rms) ==
  /\ pc = "scan"
  /\ LET r == ScanResult(present, rms, input_rms)
     IN /\ last_auto_switch_check' = r.check
        /\ auto_switch_round_robin_offset' = r.offset
        /\ IF r.kind = "switch"
           THEN /\ device' = r.winner
                /\ last_switch_time' = clock
                /\ CloseStream(asr_pending_jobs, asr_queue)
                /\ ResetStreamState
                /\ device_unavailable' = FALSE
                /\ pc' = "connect"
                /\ UNCHANGED <<live_json_path, error_since_open>>
           ELSE /\ switch_candidate' = r.candidate
                /\ switch_candidate_hits' = r.hits
                /\ pc' = IF ShouldRotate THEN "rotate_close" ELSE "loop"
                /\ UNCHANGED <<devVars, last_switch_time, speechVars, segVars,
                               segment_has_transcripts, files, lastClose>>
  /\ UNCHANGED <<envVars, cfgVars, storeVars, healthVars, threadVars, ioVars, stopVars, lockVars, deviceErrors, workerVars, asr_queue,
                 asr_pending_jobs, nextJobId, wav>>

\* ------------------------------------------------ sidecar write failures
\* write_json_atomic raises (disk full, directory removed or read-only).
\* In _init_live_json (line 857) and in _finalize_live_json (line 889) the
\* call is not inside a try; _record_loop has no handler, start() catches
\* only DeviceSwitchRequest, DeviceUnavailableError and sd.PortAudioError
\* (lines 1074-1079), run_recording only KeyboardInterrupt
\* (record_eve_24h.py lines 243-252): the exception ends the orchestrator.
InitLiveJsonFails ==
  /\ pc = "open_init"
  /\ pc' = "crashed"
  /\ UNCHANGED <<envVars, cfgVars, storeVars, healthVars, threadVars, ioVars, stopVars, lockVars, devVars, switchVars, speechVars,
                 segVars, segment_has_transcripts, deviceErrors, workerVars,
                 asr_queue, asr_pending_jobs, files, nextJobId, wav, lastClose>>

\* the rotation's _close_stream: the writer is closed, then
\* _finalize_live_json raises at its write
RotateCloseFails ==
  /\ pc = "rotate_close"
  /\ writer' = FALSE
  /\ segment_start_time' = None
  /\ pc' = "crashed"
  /\ UNCHANGED <<envVars, cfgVars, storeVars, healthVars, threadVars, ioVars, stopVars, lockVars, devVars, switchVars, speechVars,
                 stream_start_time, total_samples, had_speech, live_json_path,
                 segment_has_transcripts, deviceErrors, workerVars, asr_queue,
                 asr_pending_jobs, files, nextJobId, wav, lastClose>>

\* -------------------------------------------------- inside a sidecar write
\* write_json_atomic(path, data) as the specification describes it: the
\* document is written to a temporary file, which is then renamed over the
\* target.  A document is DocLen blocks; the blocks of the n-th document
\* written are all n, so that a torn or mixed file shows.  The writers are
\* not serialized here: _init_live_json writes without _asr_json_lock.

recorderVars == <<envVars, cfgVars, healthVars, threadVars, ioVars, stopVars, lockVars, devVars, switchVars, pc, speechVars, segVars,
                  segment_has_transcripts, deviceErrors, workerVars, asr_queue,
                  asr_pending_jobs, files, wav, nextJobId, lastClose>>

\* JsonWriteFile that writes in place.
JsonWriteInPlace(n) == sidecar_inode

\* The file write_json_atomic writes the document to: a temporary one.
JsonWriteFile(n) == n

\* open(tmp, "w")
WriteJsonOpen(w) ==
  /\ json_writer[w].pc = "idle"
  /\ nextInode <= MaxWrites
  /\ inodes' = [inodes EXCEPT ![JsonWriteFile(nextInode)] = <<>>]
  /\ json_writer' = [json_writer EXCEPT ![w] = [pc |-> "writing", inode |-> nextInode]]
  /\ nextInode' = nextInode + 1
  /\ UNCHANGED <<sidecar_inode, json_reader>>
  /\ UNCHANGED recorderVars

\* one block of json.dump
WriteJsonBlock(w) ==
  /\ json_writer[w].pc = "writing"
  /\ LET n == json_writer[w].inode
         f == JsonWriteFile(n)
     IN /\ Len(inodes[f]) < DocLen
        /\ inodes' = [inodes EXCEPT ![f] = Append(inodes[f], n)]
        /\ json_writer' = [json_writer EXCEPT ![w].pc =
                             IF Len(inodes'[f]) >= DocLen THEN "rename" ELSE "writing"]
  /\ UNCHANGED <<sidecar_inode, json_reader, nextInode>>
  /\ UNCHANGED recorderVars

\* os.replace(tmp, path)
WriteJsonRename(w) ==
  /\ json_writer[w].pc = "rename"
  /\ sidecar_inode' = JsonWriteFile(json_writer[w].inode)
  /\ json_writer' = [json_writer EXCEPT ![w] = [pc |-> "idle", inode |-> None]]
  /\ UNCHANGED <<inodes, json_reader, nextInode>>
  /\ UNCHANGED recorderVars

\* A reader opens the sidecar: it holds the file the path names now.
ReadJsonOpen ==
  /\ json_reader.pc = "idle"
  /\ json_reader' = [pc |-> "reading", inode |-> sidecar_inode, got |-> <<>>]
  /\ UNCHANGED <<sidecar_inode, inodes, json_writer, nextInode>>
  /\ UNCHANGED recorderVars

\* It reads the next block, or meets the end of the file.
ReadJsonBlock ==
  /\ json_reader.pc = "reading"
  /\ LET f == inodes[json_reader.inode]
         k == Len(json_reader.got)
     IN json_reader' =
          IF k < Len(f) THEN [json_reader EXCEPT !.got = Append(json_reader.got, f[k + 1])]
          ELSE [json_reader EXCEPT !.pc = "done"]
  /\ UNCHANGED <<sidecar_inode, inodes, json_writer, nextInode>>
  /\ UNCHANGED recorderVars

ReadJsonClose ==
  /\ json_reader.pc = "done"
  /\ json_reader' = [pc |-> "idle", inode |-> None, got |-> <<>>]
  /\ UNCHANGED <<sidecar_inode, inodes, json_writer, nextInode>>
  /\ UNCHANGED recorderVars

\* ------------------------------------------------------------ ASR worker
\* WorkerGet of a worker that looks at the stop flag before it takes an item.
WorkerGetStopsOnFlag ==
  /\ wpc = "idle"
  /\ asr_queue # <<>> \/ pc = "stopped"
  /\ IF pc = "stopped" \/ Head(asr_queue) = Sentinel
     THEN wpc' = "dead" /\ cur' = cur /\ asr_queue' = asr_queue
     ELSE wpc' = "busy" /\ cur' = Head(asr_queue) /\ asr_queue' = Tail(asr_queue)
  /\ UNCHANGED <<envVars, cfgVars, storeVars, healthVars, threadVars, ioVars, stopVars, lockVars, devVars, switchVars, pc, speechVars, segVars,
                 segment_has_transcripts, deviceErrors, asr_pending_jobs, files,
                 nextJobId, wav, lastClose, asr_outcome>>

\* item = self._asr_queue.get()
WorkerGet ==
  /\ wpc = "idle"
  /\ asr_queue # <<>>
  /\ asr_queue' = Tail(asr_queue)
  /\ IF Head(asr_queue) = Sentinel
     THEN wpc' = "dead" /\ cur' = cur
     ELSE wpc' = "busy" /\ cur' = Head(asr_queue)
  /\ UNCHANGED <<envVars, cfgVars, storeVars, healthVars, threadVars, ioVars, stopVars, lockVars, devVars, switchVars, pc, speechVars, segVars,
                 segment_has_transcripts, deviceErrors, asr_pending_jobs, files,
                 nextJobId, wav, lastClose, asr_outcome>>

\* AppendedFile that puts the new entry first.
AppendedFilePrepend(f, job) ==
  [exists |-> TRUE, status |-> "ok", segs |-> <<job.id>> \o f.segs,
   asr_enabled |-> f.asr_enabled]

\* _append_live_segment on document f
AppendedFile(f, job) ==
  [exists |-> TRUE, status |-> "ok", segs |-> Append(f.segs, job.id),
   asr_enabled |-> f.asr_enabled]

\* AsrOutcome that appends whatever transcribe_audio did.
AsrOutcomeAlwaysAppends(res) ==
  [res |-> res, appended |-> TRUE, flagged |-> TRUE,
   warned |-> res \in {"error", "write_error"}]

\* The try block (lines 156-174) when transcribe_audio returns text,
\* returns no text (`continue`), or raises (the warning of the except
\* clause), or when it returns text and the write of _append_live_segment
\* raises (line 935, after the flag is set at line 932-933; the same
\* except clause).
AsrOutcome(res) ==
  [res |-> res, appended |-> res = "text",
   flagged |-> res \in {"text", "write_error"},
   warned |-> res \in {"error", "write_error"}]

\* transcribe_audio and what follows it in the try block
WorkerTranscribe(res) ==
  /\ wpc = "busy"
  /\ asr_outcome' = AsrOutcome(res)
  /\ files' = IF asr_outcome'.appended
              THEN [files EXCEPT ![cur.path] = AppendedFile(files[cur.path], cur)]
              ELSE files
  /\ segment_has_transcripts' =
       (IF asr_outcome'.flagged /\ cur.path = live_json_path
        THEN TRUE ELSE segment_has_transcripts)
  /\ wpc' = "dec"
  /\ UNCHANGED <<envVars, cfgVars, storeVars, healthVars, threadVars, ioVars, stopVars, lockVars, devVars, switchVars, pc, speechVars,
                 segVars, deviceErrors, cur, asr_queue, asr_pending_jobs,
                 nextJobId, wav, lastClose>>

\* The count-down that stores whatever remains.
CountDownKeepsEntry(p) == PendingSet(p, PendingGet(p) - 1)

\* remaining = get(json_path, 0) - 1, stored when positive, else the entry
\* is popped (lines 177-181)
CountDown(p) ==
  LET remaining == PendingGet(p) - 1
  IN IF remaining > 0 THEN PendingSet(p, remaining) ELSE PendingPop(p)

\* the finally clause (lines 175-182)
WorkerDone ==
  /\ wpc = "dec"
  /\ asr_json_lock = "none"     \* with self._asr_json_lock (line 176)
  /\ asr_pending_jobs' = CountDown(cur.path)
  /\ wpc' = "idle"
  /\ cur' = NoJob
  /\ asr_outcome' = NoOutcome
  /\ UNCHANGED <<envVars, cfgVars, storeVars, healthVars, threadVars, ioVars, stopVars, lockVars, devVars, switchVars, pc, speechVars,
                 segVars, segment_has_transcripts, deviceErrors, asr_queue, files,
                 nextJobId, wav, lastClose>>

Worker ==
  \/ WorkerGet
  \/ \E res \in {"text", "empty", "error"} : WorkerTranscribe(res)
  \/ WorkerDone

\* The worker thread is scheduled, queue.get() returns once an item is
\* there, and every call of transcribe_audio returns.
WorkerFairness == WF_vars(Worker)

\* The devices of the machine in the runs without auto-switch.
MainDevices == {0, 1}

Next ==
  \/ Tick
  \/ Start
  \/ Connect
  \/ InitLiveJson
  \/ \E evs \in EventSeqs : ProcessBlock(evs)
  \/ RotateClose
  \/ RotateOpen
  \/ \E present \in SUBSET MainDevices : DeviceError(present)
  \/ RetryWait
  \/ Stop
  \/ Worker

Spec == Init /\ [][Next]_vars

\* The recorder on a device that stays available.
NextSteady ==
  \/ Tick
  \/ Start
  \/ Connect
  \/ InitLiveJson
  \/ \E evs \in EventSeqs : ProcessBlock(evs)
  \/ RotateClose
  \/ RotateOpen
  \/ Stop
  \/ Worker

SpecSteady == Init /\ [][NextSteady]_vars

\* The recorder fed chunks in which the VAD finds no event.
NextSilence ==
  \/ Tick
  \/ Start
  \/ Connect
  \/ InitLiveJson
  \/ ProcessBlock(<<>>)
  \/ RotateClose
  \/ RotateOpen
  \/ \E present \in SUBSET MainDevices : DeviceError(present)
  \/ RetryWait
  \/ Stop
  \/ WorkerGet

SpecSilence == Init /\ [][NextSilence]_vars

\* The recorder started on a named device with auto-switch on, without a
\* transcriber, rotating every second.
InitSwitch ==
  /\ InitState
  /\ ~transcriber
  /\ max_segment = SecLen
  /\ auto_switch_enabled = TRUE
  /\ requested_default_device = FALSE

\* The chunks of these runs: no event, a start or an end at offset 0.
SwitchChunks == {evs \in EventSeqs : Len(evs) <= 1 /\ \A i \in 1..Len(evs) : evs[i].pos = 0}

\* What sd.query_devices() can list during a scan: the device in use, the
\* phone and any of the others.
ListedDevices == {present \cup {3} : present \in {p \in SUBSET Devices : device \in p}}

\* _check_auto_switch returns before it lists a device or reads
\* _last_input_rms (lines 549-557): there is nothing to draw
ReturnsEarly == ScanGated(clock) \/ in_speech \/ InCooldown(clock)
ScanListings == IF ReturnsEarly THEN {{device}} ELSE ListedDevices
ScanInputLevels == IF ReturnsEarly THEN {0} ELSE CurrentRmsLevels

NextSwitch ==
  \/ Tick
  \/ Start
  \/ Connect
  \/ InitLiveJson
  \/ \E evs \in SwitchChunks : ProcessBlock(evs)
  \/ /\ pc = "scan"
     /\ \E present \in ScanListings :
          \E rms \in [Probed(present) -> RmsLevels], input_rms \in ScanInputLevels :
             CheckAutoSwitch(present, rms, input_rms)
  \/ RotateClose
  \/ RotateOpen
  \/ \E present \in SUBSET Devices : DeviceError(present)
  \/ RetryWait
  \/ Stop

SpecSwitch == InitSwitch /\ [][NextSwitch]_vars

\* The recorder on a disk where a sidecar write can fail.
NextIoErrors ==
  \/ Next
  \/ InitLiveJsonFails
  \/ RotateCloseFails
  \/ WorkerTranscribe("write_error")

SpecIoErrors == Init /\ [][NextIoErrors]_vars

\* The writes of one sidecar, block by block, against a reader.
NextStore ==
  \/ \E w \in JsonWriters : WriteJsonOpen(w)
  \/ \E w \in JsonWriters : WriteJsonBlock(w)
  \/ \E w \in JsonWriters : WriteJsonRename(w)
  \/ ReadJsonOpen
  \/ ReadJsonBlock
  \/ ReadJsonClose

SpecStore == Init /\ [][NextStore]_vars

\* ------------------------------------------------------------- claims
\* C1 (speech continuity): what a chunk hands to the PCM writer is exactly
\* the part of the chunk inside the intervals [start, end) the VAD
\* bracketed as speech, in order, without gap or overlap -- in every
\* chunk, so also in the chunks of a speech run that follow a forced flush
\* of the speech buffer, and in a chunk with several events.
C1_SpeechContinuity ==
  [][\A evs \in EventSeqs :
       ProcessBlock(evs) => ProcessChunk(evs).written = Marked(vadTriggered, evs)]_vars

\* C2 (silence is dropped): from a fresh recorder, while the VAD returns no
\* event, no archive receives a frame, had_speech stays false, no ASR job is
\* enqueued, and every sidecar a rotation, a device fault or stop closes is
\* written no_speech.
C2_SilenceDropped ==
  /\ \A p \in Paths : ~wav[p]
  /\ ~had_speech
  /\ ~speech_buffer.has
  /\ nextJobId = 0
  /\ \A i \in 1..Len(asr_queue) : asr_queue[i] = Sentinel
  /\ lastClose # NoClose => lastClose.status = "no_speech"
  /\ \A p \in Paths : files[p].status \in {"none", "recording", "no_speech"}

\* Silent chunks have gone through, a rotation has closed one sidecar and
\* stop another.
C2_SilenceClosed ==
  /\ pc = "stopped"
  /\ total_samples > 0
  /\ files[live_json_path].status = "no_speech"
  /\ \E p \in Paths : p # live_json_path /\ files[p].status = "no_speech"

\* C3 (closing-status table): every status a close writes is the one the
\* table gives.  Without a transcriber: pending_asr if speech was observed
\* in the archive, else no_speech.  With one: ok if a transcript was
\* appended to the sidecar, else pending_asr if its pending count is > 0,
\* else no_speech if no speech was observed, else no_text.  Speech counts
\* as observed if the recorder's flag says so or the archive holds frames;
\* a transcript as appended if the flag says so or the sidecar holds one.
C3_ClosingStatusTable ==
  lastClose # NoClose =>
    LET observed == lastClose.had \/ lastClose.audio
        appended == lastClose.hasT \/ lastClose.nsegs > 0
    IN lastClose.status =
         IF ~transcriber THEN (IF observed THEN "pending_asr" ELSE "no_speech")
         ELSE IF appended THEN "ok"
         ELSE IF lastClose.pending > 0 THEN "pending_asr"
         ELSE IF ~observed THEN "no_speech" ELSE "no_text"

\* C4 as stated: a close that finds the pending count of its sidecar > 0
\* writes pending_asr, whatever had_speech, segment_has_transcripts and
\* the stored status are.
C4_PendingMeansPendingAsr ==
  (lastClose # NoClose /\ lastClose.pending > 0) => lastClose.status = "pending_asr"

\* C4 (amended): a close that finds the pending count of its sidecar > 0
\* and no transcript appended (the stored status is not ok and
\* segment_has_transcripts is false) writes pending_asr; with a transcript
\* appended it writes ok.
C4_PendingWithoutTranscript ==
  (lastClose # NoClose /\ lastClose.pending > 0) =>
    lastClose.status =
      IF lastClose.prior = "ok" \/ lastClose.hasT THEN "ok" ELSE "pending_asr"

\* A close found jobs pending and no transcript, and wrote pending_asr.
C4_PendingClose ==
  /\ lastClose # NoClose
  /\ lastClose.pending > 0
  /\ lastClose.prior # "ok" /\ ~lastClose.hasT
  /\ lastClose.status = "pending_asr"

\* An archive is closed once it is no longer the one being written.
Closed(p) == files[p].exists /\ (p # live_json_path \/ pc = "stopped" \/ ~writer)

\* C5 (ok iff a transcript): once an archive is closed and the worker has
\* finished every job naming its sidecar, the status is ok exactly if
\* speech_segments holds at least one transcript.
C5_OkIffTranscript ==
  \A p \in Paths :
    (Closed(p) /\ Outstanding(p, asr_queue, cur, wpc) = 0) =>
      (files[p].status = "ok" <=> files[p].segs # <<>>)

\* C6 (pending-job accounting): for every sidecar path the pending count
\* (0 when the key is absent) is the number of jobs enqueued for the path
\* that the worker has not finished.
C6_PendingAccounting ==
  \A p \in Paths : PendingGet(p) = Outstanding(p, asr_queue, cur, wpc)

\* C7 (stop while ASR is running): stop() with a job for the current
\* sidecar outstanding and no transcript appended yet closes the sidecar
\* pending_asr; and after stop a sidecar that holds a transcript has
\* status ok.
C7_StopWhileAsrRunning ==
  pc = "stopped" =>
    /\ (lastClose # NoClose /\ lastClose.outstanding > 0 /\ lastClose.nsegs = 0
         /\ ~lastClose.hasT)
          => lastClose.status = "pending_asr"
    /\ \A p \in Paths : files[p].segs # <<>> => files[p].status = "ok"

\* C8 (append order): jobs are numbered as the segmenter enqueues them; the
\* queue holds them in that order, the worker takes the oldest, and the
\* entries of every sidecar are in enqueue order, none twice.
C8_AppendOrder ==
  /\ \A p \in Paths : \A i, j \in 1..Len(files[p].segs) :
        i < j => files[p].segs[i] < files[p].segs[j]
  /\ \A i, j \in 1..Len(asr_queue) :
        (i < j /\ asr_queue[j] # Sentinel) => asr_queue[i].id < asr_queue[j].id
  /\ \A i \in 1..Len(asr_queue) :
        (wpc \in {"busy", "dec"} /\ asr_queue[i] # Sentinel) => cur.id < asr_queue[i].id

\* A sidecar holds the transcripts of two jobs.
C8_TwoAppends == \E p \in Paths : Len(files[p].segs) >= 2

\* C9 (rotation): the archive a timed rotation opens has a filename
\* timestamp strictly later than that of the archive it has just closed,
\* for every rotation interval.
C9_RotationLaterStamp ==
  [][(pc = "rotate_open" /\ pc' = "open_init") => live_json_path' > live_json_path]_vars

\* C10 (forced speech flush): with a transcriber, the job the forced flush
\* of a continuing speech run enqueues -- the only job the run produces
\* while it lasts -- is no longer than the cap, allowing for the chunk in
\* which the cap is noticed.
C10_ForcedFlushWithinCap ==
  [][\A evs \in EventSeqs :
       (transcriber /\ ProcessBlock(evs) /\ ForcedFlush(evs)) =>
         /\ ProcessChunk(evs).job # None
         /\ ProcessChunk(evs).job <= MaxSpeechSegment + ChunkLen - 1]_vars

\* The runs on a device that stays available, with a transcriber, in which
\* the worker keeps running.
InitLive == Init /\ transcriber

SpecLive == InitLive /\ [][NextSteady]_vars /\ WorkerFairness

\* ------------------------------------------------------- cooperative stop
\* stop() called while start() is running (from another thread, or from a
\* signal handler): the flag is set (line 1083) and the teardown runs; the
\* orchestrator goes on to its next test of the flag.
StopRequest ==
  /\ pc \in {"connect", "open_init", "loop", "scan", "rotate_close",
             "rotate_open", "retry"}
  /\ ~stop_event
  /\ stop_event' = TRUE
  /\ StopTeardown
  /\ UNCHANGED <<envVars, cfgVars, storeVars, healthVars, threadVars, ioVars, lockVars, devVars, switchVars, pc,
                 stream_start_time, total_samples, had_speech, live_json_path,
                 segment_has_transcripts, deviceErrors, workerVars, wav>>

\* stop() runs while the orchestrator is inside a block, after the test of
\* line 999 and before a write of the block (lines 1041, 1049): stop() and
\* the loop share self._writer without a lock, _close_stream has set it to
\* None, and the write raises AttributeError, which start() does not catch
\* (lines 1074-1079).
StopDuringBlock(evs) ==
  /\ pc = "loop"
  /\ ~stop_event
  /\ clock >= streamOpenClock + total_samples + ChunkLen
  /\ ValidEvents(vadTriggered, evs)
  /\ ProcessChunk(evs).written # <<>>
  /\ stop_event' = TRUE
  /\ StopTeardown
  /\ pc' = "crashed"
  /\ UNCHANGED <<envVars, cfgVars, storeVars, healthVars, threadVars, ioVars, lockVars, devVars, switchVars,
                 stream_start_time, total_samples, had_speech, live_json_path,
                 segment_has_transcripts, deviceErrors, workerVars, wav>>

\* The flag is found set: by the loop of _record_loop (line 999), by the
\* loop of start() (line 1070), or by the wait of _handle_device_error
\* (line 794), which it cuts short; start() returns.
StartReturns ==
  /\ pc \in {"loop", "connect", "retry"}
  /\ stop_event
  /\ pc' = "returned"
  /\ UNCHANGED <<envVars, cfgVars, storeVars, healthVars, threadVars, ioVars, stopVars, lockVars, devVars, switchVars,
                 speechVars, segVars, segment_has_transcripts, deviceErrors,
                 workerVars, asr_queue, asr_pending_jobs, files, nextJobId, wav,
                 lastClose>>

\* The wait of _handle_device_error would end past the clock bound of the run.
RetryHorizon == pc = "retry" /\ clock + DeviceRetry > ClockBound

\* The steps of the thread that runs start().
Orchestrator ==
  \/ Start
  \/ Connect
  \/ InitLiveJson
  \/ \E evs \in SwitchChunks : ProcessBlock(evs)
  \/ /\ pc = "scan"
     /\ \E present \in ScanListings :
          \E rms \in [Probed(present) -> RmsLevels], input_rms \in ScanInputLevels :
             CheckAutoSwitch(present, rms, input_rms)
  \/ RotateClose
  \/ RotateOpen
  \/ \E present \in SUBSET Devices : DeviceError(present)
  \/ RetryWait
  \/ StartReturns

NextStop ==
  \/ Tick
  \/ Orchestrator
  \/ StopRequest
  \/ \E evs \in SwitchChunks : StopDuringBlock(evs)

\* The thread that runs start() is scheduled.
SpecStop == InitSwitch /\ [][NextStop]_vars /\ WF_vars(Orchestrator)

\* ------------------------------------------------------ the sidecar lock
\* The runs that look inside the with blocks of _asr_json_lock: the read
\* and the write of _finalize_live_json and of _append_live_segment are
\* steps of their own, with the lock held in between.  The short blocks
\* that touch only the pending table (lines 176, 825, 942) stay one step,
\* taken when the lock is free.  _init_live_json takes no lock.

\* The lock after the with block of _append_live_segment, kept.
LockKeptAfterAppend == "worker"

\* The lock after the with block of _append_live_segment (lines 915-935)
LockAfterAppend == "none"

\* if self._should_rotate(): self._close_stream(): the writer is closed,
\* _finalize_live_json takes the lock and reads the document (lines 863-870)
FinalizeLiveJsonRead ==
  /\ pc = "rotate_close"
  /\ asr_json_lock = "none"
  /\ writer' = FALSE
  /\ segment_start_time' = None
  /\ asr_json_lock' = "segmenter"
  /\ json_data' = [json_data EXCEPT !["segmenter"] = files[live_json_path]]
  /\ pc' = "rotate_finalize"
  /\ UNCHANGED <<envVars, cfgVars, storeVars, healthVars, threadVars, ioVars, stopVars, devVars, switchVars, speechVars,
                 stream_start_time, total_samples, had_speech, live_json_path,
                 segment_has_transcripts, deviceErrors, workerVars, asr_queue,
                 asr_pending_jobs, files, nextJobId, wav, lastClose>>

\* _finalize_live_json: the status is computed and the document written
\* (lines 871-889), the lock released; after stop()'s close,
\* _stop_asr_worker puts the sentinel
FinalizeLiveJsonWrite ==
  /\ pc \in {"rotate_finalize", "stop_finalize"}
  /\ LET p == live_json_path
         n == PendingGet(p)
         f == json_data["segmenter"]
     IN /\ files' = [files EXCEPT ![p] = FinalizedFile(f, n)]
        /\ lastClose' = CloseRecord(p, f, n, asr_queue)
  /\ asr_json_lock' = "none"
  /\ json_data' = [json_data EXCEPT !["segmenter"] = NoFile]
  /\ IF pc = "rotate_finalize"
     THEN pc' = "rotate_open" /\ asr_queue' = asr_queue
     ELSE /\ pc' = "stopped"
          /\ asr_queue' = IF wpc # "none" THEN Append(asr_queue, Sentinel)
                          ELSE asr_queue
  /\ UNCHANGED <<envVars, cfgVars, storeVars, healthVars, threadVars, ioVars, stopVars, devVars, switchVars, speechVars,
                 segVars, segment_has_transcripts, deviceErrors, workerVars,
                 asr_pending_jobs, nextJobId, wav>>

\* stop(), after the KeyboardInterrupt that ends start(), up to the read of
\* _finalize_live_json
StopLocked ==
  /\ pc \in {"connect", "open_init", "loop", "rotate_close", "rotate_open"}
  /\ LET s == IF in_speech THEN FinalizeSpeechSegment(WalkState, total_samples) ELSE WalkState
         enq == s.job # None /\ live_json_path # None
         q == IF enq
              THEN Append(asr_queue,
                     [id |-> nextJobId, path |-> live_json_path, len |-> s.job])
              ELSE asr_queue
     IN /\ (enq \/ live_json_path # None) => asr_json_lock = "none"
        /\ in_speech' = s.in_speech
        /\ speech_start_time' = s.speech_start_time
        /\ speech_start_sample' = s.speech_start_sample
        /\ pending_end_time' = s.pending_end_time
        /\ pending_end_sample' = s.pending_end_sample
        /\ speech_buffer' = s.buf
        /\ asr_pending_jobs' =
             (IF enq
              THEN PendingSet(live_json_path, PendingGet(live_json_path) + 1)
              ELSE asr_pending_jobs)
        /\ nextJobId' = IF enq THEN nextJobId + 1 ELSE nextJobId
        /\ writer' = FALSE
        /\ segment_start_time' = None
        /\ IF live_json_path = None
           THEN /\ pc' = "stopped"
                /\ asr_queue' = IF wpc # "none" THEN Append(q, Sentinel) ELSE q
                /\ UNCHANGED lockVars
           ELSE /\ pc' = "stop_finalize"
                /\ asr_queue' = q
                /\ asr_json_lock' = "segmenter"
                /\ json_data' =
                     [json_data EXCEPT !["segmenter"] = files[live_json_path]]
  /\ UNCHANGED <<envVars, cfgVars, storeVars, healthVars, threadVars, ioVars, stopVars, devVars, switchVars,
                 stream_start_time, total_samples, had_speech, live_json_path,
                 segment_has_transcripts, deviceErrors, workerVars, files, wav,
                 lastClose>>

\* transcribe_audio (lines 156-160), called with no lock held
TranscribeAudio(res) ==
  /\ wpc = "busy"
  /\ asr_outcome' = AsrOutcome(res)
  /\ wpc' = IF asr_outcome'.appended THEN "append" ELSE "dec"
  /\ UNCHANGED <<envVars, cfgVars, storeVars, healthVars, threadVars, ioVars, stopVars, lockVars, devVars, switchVars, pc,
                 speechVars, segVars, segment_has_transcripts, deviceErrors, cur,
                 asr_queue, asr_pending_jobs, files, nextJobId, wav, lastClose>>

\* _append_live_segment takes the lock and reads the document (lines 915-922)
AppendLiveSegmentRead ==
  /\ wpc = "append"
  /\ asr_json_lock = "none"
  /\ asr_json_lock' = "worker"
  /\ json_data' = [json_data EXCEPT !["worker"] = files[cur.path]]
  /\ wpc' = "append_write"
  /\ UNCHANGED <<envVars, cfgVars, storeVars, healthVars, threadVars, ioVars, stopVars, devVars, switchVars, pc, speechVars,
                 segVars, segment_has_transcripts, deviceErrors, cur, asr_outcome,
                 asr_queue, asr_pending_jobs, files, nextJobId, wav, lastClose>>

\* _append_live_segment: the entry is added, the flag set, the document
\* written (lines 923-935), the lock released
AppendLiveSegmentWrite ==
  /\ wpc = "append_write"
  /\ files' = [files EXCEPT ![cur.path] = AppendedFile(json_data["worker"], cur)]
  /\ segment_has_transcripts' =
       (IF cur.path = live_json_path THEN TRUE ELSE segment_has_transcripts)
  /\ asr_json_lock' = LockAfterAppend
  /\ json_data' = [json_data EXCEPT !["worker"] = NoFile]
  /\ wpc' = "dec"
  /\ UNCHANGED <<envVars, cfgVars, storeVars, healthVars, threadVars, ioVars, stopVars, devVars, switchVars, pc, speechVars,
                 segVars, deviceErrors, cur, asr_outcome, asr_queue,
                 asr_pending_jobs, nextJobId, wav, lastClose>>

InitLock == Init /\ transcriber

NextLock ==
  \/ Tick
  \/ Start
  \/ Connect
  \/ InitLiveJson
  \/ \E evs \in EventSeqs : ProcessBlock(evs)
  \/ FinalizeLiveJsonRead
  \/ FinalizeLiveJsonWrite
  \/ RotateOpen
  \/ StopLocked
  \/ WorkerGet
  \/ \E res \in {"text", "empty", "error"} : TranscribeAudio(res)
  \/ AppendLiveSegmentRead
  \/ AppendLiveSegmentWrite
  \/ WorkerDone

SpecLock == InitLock /\ [][NextLock]_vars


\* C11 (transcripts land in the archive that holds their audio): whenever
\* a job is enqueued, the sidecar it names (the current one) belongs to
\* the archive whose PCM file received the audio of the speech buffer the
\* job is made of -- also when a rotation happened while the buffer was
\* open or awaiting its trailing-silence timeout.
C11_JobNamesAudioArchive ==
  [][(nextJobId' > nextJobId /\ speech_buffer.has) =>
       speech_buffer.src = live_json_path]_vars

\* C12 (stop finalizes the in-flight buffer): when stop() runs with a
\* transcriber and a non-empty speech buffer -- the recorder still in
\* speech, or waiting for min_silence after the VAD's end -- the buffer
\* becomes a job, the closing status is computed with that job counted as
\* pending, and the job stands in the queue right before the sentinel.
C12_StopFinalizesBuffer ==
  [][(pc # "stopped" /\ pc' = "stopped" /\ transcriber /\ speech_buffer.has) =>
       /\ nextJobId' = nextJobId + 1
       /\ ~speech_buffer'.has
       /\ lastClose'.pending > 0
       /\ Len(asr_queue') >= 2
       /\ asr_queue'[Len(asr_queue')] = Sentinel
       /\ asr_queue'[Len(asr_queue') - 1] =
            [id |-> nextJobId, path |-> live_json_path, len |-> speech_buffer.len]]_vars

\* The winner of a scan, in the words of C13: none while the recorder is in
\* speech or when no candidate is probed; else the loudest probed candidate
\* (the first of them in probing order), unless it is below the floor or,
\* the current input being above the floor, below the ratio.
ScanWinner(present, rms, input_rms) ==
  LET probe == ProbeIndexes(CandidateIndexes(present))
      loudest == {i \in 1..Len(probe) :
                    \A j \in 1..Len(probe) : rms[probe[j]] <= rms[probe[i]]}
      first == CHOOSE i \in loudest : \A j \in loudest : i <= j
  IN IF in_speech \/ probe = <<>> THEN None
     ELSE IF rms[probe[first]] < MinRms \/ rms[probe[first]] = 0 THEN None
     ELSE IF input_rms >= MinRms /\ rms[probe[first]] < input_rms * MinRatio THEN None
     ELSE probe[first]

\* C13 (switch debounce): the count is below the confirmations and is zero
\* exactly when there is no candidate; a scan (a call of _check_auto_switch
\* that passes the interval gate, outside the cooldown) raises the switch
\* request exactly when its winner is the candidate that already has
\* confirmations - 1 wins, and for that winner; a scan without a winner
\* (in speech, no candidate, below the floor, ratio not met) sets the count
\* to zero, a scan won by another device sets it to one for that device;
\* inside the cooldown there is no count to keep.
C13_SwitchDebounce ==
  /\ switch_candidate_hits \in 0..(Confirmations - 1)
  /\ (switch_candidate = None) <=> (switch_candidate_hits = 0)
  /\ InCooldown(clock) => switch_candidate_hits = 0
  /\ (pc = "scan" /\ ~ScanGated(clock) /\ ~InCooldown(clock)) =>
       \A present \in ListedDevices :
         \A rms \in [Probed(present) -> RmsLevels], input_rms \in CurrentRmsLevels :
           LET r == ScanResult(present, rms, input_rms)
               w == ScanWinner(present, rms, input_rms)
           IN /\ (r.kind = "switch") <=>
                   (w # None /\ w = switch_candidate
                      /\ switch_candidate_hits = Confirmations - 1)
              /\ r.kind = "switch" => r.winner = w
              /\ w = None => (r.candidate = None /\ r.hits = 0)
              /\ (w # None /\ r.kind # "switch") =>
                   /\ r.candidate = w
                   /\ r.hits = IF w = switch_candidate
                               THEN switch_candidate_hits + 1 ELSE 1

\* A scan has just switched to a candidate that had won the scan before.
C13_Switched ==
  /\ pc = "connect"
  /\ last_switch_time = clock
  /\ last_auto_switch_check = clock
  /\ device # 0
  /\ switch_candidate = None

FinalStatuses == {"ok", "no_speech", "no_text", "pending_asr"}

\* C15 (device fallback): when the device fails during capture, fallback
\* is enabled (default-device mode or auto-switch) and an input device
\* other than the current one is listed, the open archive is closed with a
\* final status (never recording), and the recorder goes straight back to
\* opening a stream, on another device, without the retry wait.
C15_DeviceFallback ==
  [][\A present \in SUBSET Devices :
       (/\ pc = "loop"
        /\ DeviceError(present)
        /\ requested_default_device \/ auto_switch_enabled
        /\ present \ {device} # {}) =>
          /\ lastClose'.path = live_json_path
          /\ lastClose'.status \in FinalStatuses
          /\ files'[live_json_path].status \in FinalStatuses
          /\ device' \in present \ {device}
          /\ pc' = "connect"
          /\ clock' = clock]_vars

\* C16 (atomic sidecar writes): whatever a reader that runs alongside the
\* writers has read when it meets the end of the file is one complete
\* document: all DocLen blocks of one write, the one before or the one
\* after any write in progress, never a partial or truncated file.
C16_ReaderSeesWholeDocument ==
  json_reader.pc = "done" =>
    /\ Len(json_reader.got) = DocLen
    /\ \A i \in 1..Len(json_reader.got) : json_reader.got[i] = json_reader.got[1]

\* A reader has read a rewritten document to its end while a writer is in
\* the middle of writing the next one.
C16_ReadDuringWrite ==
  /\ json_reader.pc = "done"
  /\ json_reader.got # <<>> /\ json_reader.got[1] >= 1
  /\ \E w \in JsonWriters :
       /\ json_writer[w].pc = "writing"
       /\ Len(inodes[JsonWriteFile(json_writer[w].inode)]) = 1

\* The pending count of path p after the step.
PendingAfter(p) ==
  IF p \in DOMAIN asr_pending_jobs' THEN asr_pending_jobs'[p] ELSE 0

\* What C17 asks of a worker step on a job whose transcription failed in
\* one of the ways `failed` lists: the try block leaves every sidecar and
\* the queue as they are (nothing is appended, the job is not queued again)
\* and logs a warning if the failure is one of `warns`; the finally
\* clause takes one off the pending count of the job's sidecar (a count
\* already absent stays absent) and leaves the other counts alone, and the
\* worker is back at the queue; the orchestrator is where it was.
FailureContained(failed, warns) ==
  /\ (wpc = "busy" /\ wpc' = "dec" /\ asr_outcome'.res \in failed) =>
       /\ files' = files
       /\ asr_queue' = asr_queue
       /\ asr_pending_jobs' = asr_pending_jobs
       /\ asr_outcome'.res \in warns => asr_outcome'.warned
       /\ pc' = pc
  /\ (wpc = "dec" /\ wpc' # "dec" /\ asr_outcome.res \in failed) =>
       /\ PendingAfter(cur.path) =
            (IF PendingGet(cur.path) > 0 THEN PendingGet(cur.path) - 1 ELSE 0)
       /\ \A p \in Paths \ {cur.path} : PendingAfter(p) = PendingGet(p)
       /\ files' = files
       /\ asr_queue' = asr_queue
       /\ wpc' = "idle"
       /\ pc' = pc

\* C17 as stated: a job for which transcribe_audio raises or returns empty
\* text is contained, and in both cases the worker logs a warning.
C17_FailureWarned ==
  [][FailureContained({"error", "empty"}, {"error", "empty"})]_vars

\* C17 (amended): a job for which transcribe_audio raises or returns empty
\* text is contained; the worker logs a warning when transcribe_audio
\* raises (an empty text is skipped without a log).
C17_FailureContained ==
  [][FailureContained({"error", "empty"}, {"error"})]_vars

\* The worker has counted down a job whose transcription raised, and the
\* next job is waiting in the queue, capture still running.
C17_FailedThenNext ==
  /\ wpc = "dec"
  /\ asr_outcome.res = "error" /\ asr_outcome.warned
  /\ asr_queue # <<>> /\ asr_queue[1] # Sentinel
  /\ PendingGet(cur.path) > 0
  /\ pc = "loop"

\* C18 (sidecar I/O errors do not stop capture): a failed sidecar write --
\* at archive open, at the close of a rotation, or in a worker append --
\* is logged and leaves the capture loop running: the orchestrator is
\* never ended by the exception, and a failed append of the worker is
\* turned into a warning.
C18_CaptureSurvivesIoErrors ==
  /\ pc # "crashed"
  /\ asr_outcome.res = "write_error" => (asr_outcome.warned /\ wpc = "dec")

\* C19 (ASR disabled): without a transcriber no worker is started, no job
\* is ever enqueued, the pending table and the speech buffer stay empty,
\* every sidecar on disk says asr_enabled = false, and every closed
\* sidecar has status no_speech or pending_asr.
C19_AsrDisabled ==
  ~transcriber =>
    /\ wpc = "none" /\ cur = NoJob
    /\ asr_queue = <<>>
    /\ nextJobId = 0
    /\ asr_pending_jobs = << >>
    /\ speech_buffer = EmptyBuffer
    /\ ~segment_has_transcripts
    /\ \A p \in Paths :
         /\ files[p].exists => files[p].asr_enabled = "false"
         /\ files[p].segs = <<>>
         /\ files[p].status \in {"none", "recording", "no_speech", "pending_asr"}
         /\ Closed(p) => files[p].status \in {"no_speech", "pending_asr"}

\* Without a transcriber, the recorder has stopped after a rotation: one
\* archive with speech is closed pending_asr, another one no_speech.
C19_DisabledClosed ==
  /\ ~transcriber
  /\ pc = "stopped"
  /\ \E p, q \in Paths :
       /\ Closed(p) /\ wav[p] /\ files[p].status = "pending_asr"
       /\ Closed(q) /\ files[q].status = "no_speech"

\* C20 (restored log): the stream open that succeeds logs "Microphone
\* restored. Resuming recording." exactly when a device error has happened
\* since the last open that succeeded; the first open after start and the
\* reopen after an auto-switch log nothing, and once the log is out the
\* next open logs again only after another device error.
C20_RestoredLogSingleShot ==
  [][Connect => /\ LogsMicrophoneRestored <=> error_since_open
                /\ ~LogsMicrophoneRestored']_vars

\* The recorder has switched devices on its own and been reopened, a device
\* error followed, and the stream open about to succeed logs the line.
C20_RestoredAfterError ==
  /\ pc = "connect"
  /\ last_switch_time # None
  /\ error_since_open
  /\ LogsMicrophoneRestored

\* C21 (frame accounting): total_samples only grows while an archive is
\* open and is 0 again whenever an archive has just been opened (timed
\* rotation, reopen after a device switch or error), and a speech start
\* time set by a block, stream_start_time + sample / rate, lies between
\* the open time of the current archive and the current time.
C21_FrameAccounting ==
  [][/\ total_samples' >= total_samples \/ total_samples' = 0
     /\ (pc' = "open_init" /\ pc # "open_init") => total_samples' = 0
     /\ (speech_start_time' # None /\ speech_start_time' # speech_start_time) =>
          /\ stream_start_time <= speech_start_time'
          /\ speech_start_time' <= clock]_vars

\* C22 (sidecar mutations under the lock): every step that changes a
\* sidecar document is taken by the thread that holds the sidecar lock, and
\* what it writes is the document it read under the lock with its fields
\* merged in (the status of a close, the entry of an append).
C22_MutationsUnderLock ==
  [][\A p \in Paths :
       files'[p] # files[p] =>
         /\ asr_json_lock # "none"
         /\ files'[p] \in {FinalizedFile(json_data[asr_json_lock], PendingGet(p)),
                           AppendedFile(json_data[asr_json_lock], cur)}]_vars

\* C23 (no lost update): an entry the worker has appended to a sidecar is
\* still in that sidecar, at its place, after every later write of the
\* segmenter or the worker.
C23_NoLostUpdate ==
  [][\A p \in Paths :
       /\ Len(files'[p].segs) >= Len(files[p].segs)
       /\ \A i \in 1..Len(files[p].segs) : files'[p].segs[i] = files[p].segs[i]]_vars

\* C24 (no lock across a transcription): the worker holds the sidecar lock
\* only between the read and the write of its append; while it is in
\* transcribe_audio, and anywhere else, it does not hold it, so a lock
\* acquisition of the orchestrator never waits for a transcription.
C24_NoLockWhileTranscribing ==
  asr_json_lock = "worker" <=> wpc = "append_write"

\* The worker is inside transcribe_audio and the orchestrator has taken the
\* lock for the read-modify-write of a close.
C24_CloseDuringTranscription ==
  /\ wpc = "busy"
  /\ asr_json_lock = "segmenter"
  /\ cur.path = live_json_path

\* C25 (the worker ends on the sentinel only): the worker exits only by
\* taking the sentinel off the queue; when it has exited, every job put on
\* the queue before the sentinel, stop()'s own job included, has been
\* taken, processed and counted down; and with a worker that keeps running
\* and transcriptions that return, after stop() the pending table is
\* eventually empty.
C25_WorkerEndsOnSentinel ==
  /\ [][wpc' = "dead" /\ wpc # "dead" =>
          wpc = "idle" /\ asr_queue # <<>> /\ Head(asr_queue) = Sentinel]_vars
  /\ [](wpc = "dead" =>
          /\ pc = "stopped"
          /\ asr_queue = <<>>
          /\ cur = NoJob
          /\ asr_pending_jobs = << >>)
  /\ (pc = "stopped" ~> asr_pending_jobs = << >>)
  /\ (pc = "stopped" /\ wpc # "none" ~> wpc = "dead")

\* stop() has returned with its own job and the sentinel on the queue
\* behind a job the worker is still transcribing.
C25_StoppedWithJobsQueued ==
  /\ pc = "stopped"
  /\ wpc = "busy"
  /\ Len(asr_queue) = 2
  /\ asr_queue[1] # Sentinel
  /\ asr_queue[2] = Sentinel
  /\ asr_pending_jobs # << >>

\* C26 (cooperative stop): start() returns only with the stop flag set;
\* once the flag is set start() eventually returns, wherever the
\* orchestrator is (in a block, at the queue, in the retry wait); and a
\* device error or a switch request with the flag down is followed by
\* another run of the capture loop.
C26_CooperativeStop ==
  /\ [](pc = "returned" => stop_event)
  /\ (stop_event ~> pc = "returned")
  /\ ((~stop_event /\ pc \in {"connect", "retry"})
        ~> (pc = "open_init" \/ stop_event \/ RetryHorizon))

\* ------------------------------------------------- the device list
\* the devices of a machine whose list changes
MaxChannels == 1
ProbeDevices == {0, 1, 2}
ProbeNames == {"macbook", "usb", "iphone", "iphone built-in"}
ProbeInfos == [name : ProbeNames, max_input_channels : 0..MaxChannels]
ProbeTables == UNION {[present -> ProbeInfos] : present \in SUBSET ProbeDevices}

\* A device is plugged in, or the one at an index is replaced by another.
Plug(i, info) ==
  /\ IF i \in DOMAIN query_devices THEN query_devices[i] # info ELSE TRUE
  /\ query_devices' = [j \in DOMAIN query_devices \cup {i} |->
                         IF j = i THEN info ELSE query_devices[j]]
  /\ UNCHANGED <<envVars, cfgVars, storeVars, threadVars, ioVars, stopVars, lockVars, devVars,
                 switchVars, pc, speechVars, segVars, segment_has_transcripts,
                 deviceErrors, workerVars, asr_queue, asr_pending_jobs, files,
                 wav, nextJobId, lastClose, selected_fallback,
                 device_fingerprint, device_list_snapshot, last_device_check,
                 health_result>>

\* A device is unplugged.
Unplug(i) ==
  /\ i \in DOMAIN query_devices
  /\ query_devices' = [j \in DOMAIN query_devices \ {i} |-> query_devices[j]]
  /\ UNCHANGED <<envVars, cfgVars, storeVars, threadVars, ioVars, stopVars, lockVars, devVars,
                 switchVars, pc, speechVars, segVars, segment_has_transcripts,
                 deviceErrors, workerVars, asr_queue, asr_pending_jobs, files,
                 wav, nextJobId, lastClose, selected_fallback,
                 device_fingerprint, device_list_snapshot, last_device_check,
                 health_result>>

\* One call of _select_fallback_input_device() on the list of the moment.
SelectFallback ==
  /\ selected_fallback' = SelectFallbackInputDevice(query_devices)
  /\ UNCHANGED <<envVars, cfgVars, storeVars, threadVars, ioVars, stopVars, lockVars, devVars,
                 switchVars, pc, speechVars, segVars, segment_has_transcripts,
                 deviceErrors, workerVars, asr_queue, asr_pending_jobs, files,
                 wav, nextJobId, lastClose, query_devices,
                 device_fingerprint, device_list_snapshot, last_device_check,
                 health_result>>

\* A recorder not yet started, on a machine with any device list.
InitFallback ==
  /\ InitRecorder
  /\ InitScanConfig
  /\ transcriber = FALSE
  /\ max_segment = SecLen
  /\ auto_switch_enabled = FALSE
  /\ requested_default_device = TRUE
  /\ device = 0
  /\ query_devices \in ProbeTables
  /\ InitHealthState

NextFallback ==
  \/ \E i \in ProbeDevices, info \in ProbeInfos : Plug(i, info)
  \/ \E i \in ProbeDevices : Unplug(i)
  \/ SelectFallback

SpecFallback == InitFallback /\ [][NextFallback]_vars

\* C28 (fallback selection): a call of _select_fallback_input_device
\* returns the lowest-index input device (enough input channels) that is
\* not excluded and has a preferred name, else the lowest-index input
\* device that is not excluded; it returns an excluded device only when no
\* other input device is listed, and None exactly when no input device is
\* listed at all.
C28_FallbackSelection ==
  [][SelectFallback =>
       LET devs == query_devices
           inputs == {i \in DOMAIN devs : devs[i].max_input_channels >= Channels}
           plain == {i \in inputs : devs[i].name \notin ExcludedNames}
           preferred == {i \in plain : devs[i].name \in PreferredNames}
           r == selected_fallback'
       IN /\ preferred # {} =>
               (r \in preferred /\ \A i \in preferred : r <= i)
          /\ (preferred = {} /\ plain # {}) =>
               (r \in plain /\ \A i \in plain : r <= i)
          /\ (r # None /\ r \notin plain) => (plain = {} /\ r \in inputs)
          /\ (r = None) <=> (inputs = {})]_vars

\* The fallback is a phone: the other devices listed have no input channel.
C28_ExcludedFallback ==
  /\ selected_fallback # None
  /\ selected_fallback = SelectFallbackInputDevice(query_devices)
  /\ query_devices[selected_fallback].name \in ExcludedNames
  /\ \E i \in DOMAIN query_devices :
       /\ i < selected_fallback
       /\ query_devices[i].name \in PreferredNames \ ExcludedNames
       /\ query_devices[i].max_input_channels < Channels

\* ------------------------------------------------- device health
\* config.device_check_seconds, in clock units
DeviceCheck == 2
MaxHealthClock == 3
HealthDevices == {0, 1}
HealthNames == {"macbook", "usb"}
HealthInfos == [name : HealthNames, max_input_channels : 0..MaxChannels]
HealthTables == UNION {[present -> HealthInfos] : present \in SUBSET HealthDevices}

\* sd.query_devices(idx, kind="input") returns an info with input channels
\* (it raises for an index that is not listed or has none)
IsInputDevice(devs, idx) ==
  idx \in DOMAIN devs /\ devs[idx].max_input_channels > 0

\* _find_device_index: the first listed device of that name (and hostapi:
\* a name of the model stands for the pair) with input channels
FindDeviceIndex(devs, name) ==
  LET found == {i \in DOMAIN devs :
                  devs[i].name = name /\ devs[i].max_input_channels > 0}
  IN IF name = NoFingerprint \/ found = {} THEN None ELSE ListInputDevices(found)[1]

\* _device_list_changed: what it returns and the snapshot it leaves
DeviceListChanged ==
  LET keep == [changed |-> FALSE, snapshot |-> device_list_snapshot]
  IN IF device_fingerprint = NoFingerprint THEN keep
     ELSE IF DOMAIN query_devices = {} THEN keep
     ELSE IF device_list_snapshot = NoSnapshot
          THEN [changed |-> FALSE, snapshot |-> SnapshotDeviceList(query_devices)]
     ELSE IF SnapshotDeviceList(query_devices) = device_list_snapshot THEN keep
     ELSE [changed |-> TRUE, snapshot |-> SnapshotDeviceList(query_devices)]

\* _is_device_available: what it returns and self.device after it
IsDeviceAvailable ==
  IF ~IsInputDevice(query_devices, device)
  THEN [available |-> FALSE, device |-> device]
  ELSE IF device_fingerprint # NoFingerprint
            /\ query_devices[device].name # device_fingerprint
       THEN LET new_index == FindDeviceIndex(query_devices, device_fingerprint)
            IN [available |-> FALSE,
                device |-> IF new_index # None /\ new_index # device
                           THEN new_index ELSE device]
       ELSE [available |-> TRUE, device |-> device]

\* now - self._last_device_check >= interval (line 724)
HealthCheckDue(now) ==
  DeviceCheck > 0
    /\ (last_device_check = None \/ now - last_device_check >= DeviceCheck)

\* One call of _check_device_health by a recorder that is capturing.
CheckDeviceHealth ==
  /\ health_result # "unavailable"
  /\ IF ~HealthCheckDue(clock)
     THEN /\ health_result' = "ok"
          /\ UNCHANGED <<device, last_device_check, device_list_snapshot>>
     ELSE LET ch == DeviceListChanged
              new_index == FindDeviceIndex(query_devices, device_fingerprint)
              av == IsDeviceAvailable
          IN /\ last_device_check' = clock
             /\ device_list_snapshot' = ch.snapshot
             /\ IF ch.changed /\ device_fingerprint # NoFingerprint /\ new_index = None
                THEN health_result' = "unavailable" /\ device' = device
                ELSE IF ch.changed /\ device_fingerprint # NoFingerprint /\ new_index # device
                THEN health_result' = "unavailable" /\ device' = new_index
                ELSE /\ device' = av.device
                     /\ health_result' = IF av.available THEN "ok" ELSE "unavailable"
  /\ UNCHANGED <<envVars, cfgVars, storeVars, threadVars, ioVars, stopVars, lockVars,
                 device_unavailable, error_since_open,
                 switchVars, pc, speechVars, segVars, segment_has_transcripts,
                 deviceErrors, workerVars, asr_queue, asr_pending_jobs, files,
                 wav, nextJobId, lastClose, query_devices, selected_fallback,
                 device_fingerprint>>

\* After DeviceUnavailableError the recorder comes back on an input device
\* (the one _preflight_device finds, the fallback, or the same one after a
\* wait) and _capture_device_fingerprint runs (lines 984-993, 609-622).
Reopen(d) ==
  /\ health_result = "unavailable"
  /\ IsInputDevice(query_devices, d)
  /\ device' = d
  /\ device_fingerprint' = query_devices[d].name
  /\ device_list_snapshot' = SnapshotDeviceList(query_devices)
  /\ health_result' = "none"
  /\ UNCHANGED <<envVars, cfgVars, storeVars, threadVars, ioVars, stopVars, lockVars,
                 device_unavailable, error_since_open,
                 switchVars, pc, speechVars, segVars, segment_has_transcripts,
                 deviceErrors, workerVars, asr_queue, asr_pending_jobs, files,
                 wav, nextJobId, lastClose, query_devices, selected_fallback,
                 last_device_check>>

\* Time passes between two iterations of the capture loop.
Elapse ==
  /\ clock < MaxHealthClock
  /\ clock' = clock + 1
  /\ UNCHANGED <<vadTriggered, streamOpenClock, cfgVars, storeVars, healthVars, threadVars, ioVars,
                 stopVars, lockVars, devVars, switchVars, pc, speechVars,
                 segVars, segment_has_transcripts, deviceErrors, workerVars,
                 asr_queue, asr_pending_jobs, files, wav, nextJobId, lastClose>>

\* The supervision state of a recorder that has opened its stream on an
\* input device of any device list and captured its fingerprint.
InitHealth ==
  /\ InitRecorder
  /\ InitScanConfig
  /\ transcriber = FALSE
  /\ max_segment = SecLen
  /\ auto_switch_enabled = FALSE
  /\ requested_default_device = TRUE
  /\ query_devices \in HealthTables
  /\ device \in HealthDevices
  /\ IsInputDevice(query_devices, device)
  /\ InitThreadState
  /\ selected_fallback = None
  /\ device_fingerprint = query_devices[device].name
  /\ device_list_snapshot = SnapshotDeviceList(query_devices)
  /\ last_device_check = None
  /\ health_result = "none"

NextHealth ==
  \/ Elapse
  \/ \E i \in HealthDevices, info \in HealthInfos : Plug(i, info)
  \/ \E i \in HealthDevices : Unplug(i)
  \/ CheckDeviceHealth
  \/ \E d \in HealthDevices : Reopen(d)

SpecHealth == InitHealth /\ [][NextHealth]_vars

\* C27 (health check): a call of _check_device_health that is not due
\* (less than device_check_seconds after the last one that was) does
\* nothing; one that is due raises Unavailable when the current index no
\* longer resolves to an input device, and when the list changed and no
\* listed device carries the captured fingerprint; when a device with the
\* fingerprint is listed at another index than the current one, the index
\* moves to it and Unavailable is raised; when the device at the current
\* index still carries the fingerprint, nothing is raised and the index
\* stays.
C27_HealthCheck ==
  [][CheckDeviceHealth =>
       LET devs == query_devices
           due == last_device_check = None
                    \/ clock - last_device_check >= DeviceCheck
           resolves == device \in DOMAIN devs
                         /\ devs[device].max_input_channels > 0
           carriers == {i \in DOMAIN devs :
                          /\ devs[i].name = device_fingerprint
                          /\ devs[i].max_input_channels > 0}
           changed == device_list_snapshot # SnapshotDeviceList(devs)
           raised == health_result' = "unavailable"
       IN IF ~due
          THEN /\ ~raised
               /\ device' = device
               /\ last_device_check' = last_device_check
          ELSE /\ last_device_check' = clock
               /\ ~resolves => raised
               /\ (changed /\ carriers = {}) => raised
               /\ (carriers # {} /\ device \notin carriers) =>
                    (raised /\ device' \in carriers)
               /\ device \in carriers => (~raised /\ device' = device)]_vars

\* The loudest reading among the devices a scan probes (0: none probed).
TopRms(present, rms) ==
  IF Probed(present) = {} THEN 0
  ELSE LET d == CHOOSE d \in Probed(present) :
                  \A e \in Probed(present) : rms[e] <= rms[d]
       IN rms[d]

C30_NoSwitchInSpeech ==
  [][(pc = "scan" /\ pc' \in {"connect", "loop", "rotate_close"}) =>
       /\ in_speech => (pc' # "connect" /\ device' = device)
       /\ (in_speech /\ ~ScanGated(clock)) =>
            /\ last_auto_switch_check' = clock
            /\ switch_candidate' = None
            /\ switch_candidate_hits' = 0
            /\ auto_switch_round_robin_offset' = auto_switch_round_robin_offset
       /\ pc' = "connect" =>
            /\ ~in_speech
            /\ device' # device
            /\ DeviceName[device'] \notin ExcludedNames]_vars

\* A scan has just run in the middle of a speech segment, two scan
\* intervals or more into the run, and the recorder goes on capturing with
\* no switch candidate.
C30_ScannedInSpeech ==
  /\ in_speech
  /\ pc = "loop"
  /\ last_auto_switch_check = clock
  /\ last_auto_switch_check >= 2 * ScanLen
  /\ switch_candidate = None
  /\ last_switch_time = None

\* ------------------------------------------------- sidecar contents
\* The text and language fields of one sidecar.  A string is the sequence
\* of its characters; a transcript is a non-empty stripped text (line 160)
\* and a language, "" for None (line 166).
MaxSegments == 2
SegmentTexts == {<<"a">>, <<"b", "c">>}
\* the language codes, in the order sorted() gives them
LanguageCodes == <<"en", "zh">>
SegmentLanguages == {"", "en", "zh"}
Payloads == [text : SegmentTexts, language : SegmentLanguages]

\* "\n".join(texts)
RECURSIVE JoinLines(_)
JoinLines(texts) ==
  IF texts = <<>> THEN <<>>
  ELSE IF Len(texts) = 1 THEN texts[1]
  ELSE texts[1] \o <<"\n">> \o JoinLines(Tail(texts))

\* ", ".join(sorted(set(languages))) if languages else None: the codes that
\* are joined, or null
JoinLanguages(languages) ==
  IF languages = <<>> THEN [null |-> TRUE, codes |-> <<>>]
  ELSE [null |-> FALSE,
        codes |-> SelectSeq(LanguageCodes,
                    LAMBDA c : \E i \in 1..Len(languages) : languages[i] = c)]

\* [seg.get(key) for seg in speech_segments if seg.get(key)]
Truthy(speech_segments, key) ==
  LET vals == [i \in 1..Len(speech_segments) |-> speech_segments[i][key]]
      empty == IF key = "text" THEN <<>> ELSE ""
  IN SelectSeq(vals, LAMBDA v : v # empty)

\* the payload of _init_live_json (lines 838-856)
InitPayload ==
  [exists |-> TRUE, status |-> "recording", segs |-> <<>>,
   asr_enabled |-> "true", text |-> <<>>,
   language |-> [null |-> TRUE, codes |-> <<>>]]

\* _append_live_segment that adds the new text to the text of the document.
AppendLiveSegmentIncremental(data, payload) ==
  [data EXCEPT !.status = "ok",
               !.segs = Append(data.segs, payload),
               !.text = JoinLines(<<data.text, payload.text>>),
               !.language = JoinLanguages(Truthy(Append(data.segs, payload), "language"))]

\* _append_live_segment on the document read (lines 923-934)
AppendLiveSegment(data, payload) ==
  LET speech_segments == Append(data.segs, payload)
  IN [data EXCEPT !.status = "ok",
                  !.segs = speech_segments,
                  !.text = JoinLines(Truthy(speech_segments, "text")),
                  !.language = JoinLanguages(Truthy(speech_segments, "language"))]

\* _finalize_live_json on the document read (lines 871-888): only the
\* status changes; status: what lines 874-886 compute when it is not ok
FinalizeLiveJson(data, status) ==
  [data EXCEPT !.status = IF data.status = "ok" THEN "ok" ELSE status]

SidecarUnchanged ==
  UNCHANGED <<envVars, cfgVars, storeVars, healthVars, threadVars, ioVars, stopVars, devVars,
              switchVars, pc, speechVars, segVars, segment_has_transcripts,
              deviceErrors, workerVars, asr_queue, asr_pending_jobs, wav,
              nextJobId, lastClose>>

\* _init_live_json for the path of the sidecar: the first open, or a reopen
\* within the same second; no lock is taken
SidecarInit ==
  /\ files' = [files EXCEPT ![0] = InitPayload]
  /\ UNCHANGED lockVars
  /\ SidecarUnchanged

\* _append_live_segment and _finalize_live_json take the lock and read
SidecarRead(thread) ==
  /\ files[0].exists
  /\ asr_json_lock = "none"
  /\ thread = "worker" => Len(files[0].segs) < MaxSegments
  /\ asr_json_lock' = thread
  /\ json_data' = [json_data EXCEPT ![thread] = files[0]]
  /\ UNCHANGED files
  /\ SidecarUnchanged

\* the worker writes the document with the transcript added
SidecarAppend(payload) ==
  /\ asr_json_lock = "worker"
  /\ files' = [files EXCEPT ![0] = AppendLiveSegment(json_data["worker"], payload)]
  /\ asr_json_lock' = "none"
  /\ UNCHANGED json_data
  /\ SidecarUnchanged

\* the segmenter writes the document with its final status (a close or a
\* rotation)
SidecarFinalize(status) ==
  /\ asr_json_lock = "segmenter"
  /\ files' = [files EXCEPT ![0] = FinalizeLiveJson(json_data["segmenter"], status)]
  /\ asr_json_lock' = "none"
  /\ UNCHANGED json_data
  /\ SidecarUnchanged

InitSidecar ==
  /\ InitState
  /\ transcriber = TRUE
  /\ max_segment = SecLen
  /\ auto_switch_enabled = FALSE
  /\ requested_default_device = TRUE

NextSidecar ==
  \/ SidecarInit
  \/ \E thread \in JsonWriters : SidecarRead(thread)
  \/ \E payload \in Payloads : SidecarAppend(payload)
  \/ \E status \in {"ok", "pending_asr", "no_speech", "no_text"} : SidecarFinalize(status)

SpecSidecar == InitSidecar /\ [][NextSidecar]_vars

\* C31 (sidecar self-consistency): once a transcript has been appended, and
\* in every state of the sidecar, its text is the non-empty texts of its
\* speech_segments joined by newline in list order and its language the
\* sorted, duplicate-free codes of the segments' languages (null when no
\* segment has one); the writes of a close or a rotation keep the relation.
C31_SidecarConsistent ==
  files[0].exists =>
    LET d == files[0]
        n == Len(d.segs)
        langs == {d.segs[i].language : i \in 1..n} \ {""}
    IN /\ d.text = JoinLines(SelectSeq([i \in 1..n |-> d.segs[i].text],
                                       LAMBDA t : t # <<>>))
       /\ d.language.null <=> (langs = {})
       /\ {d.language.codes[i] : i \in 1..Len(d.language.codes)} = langs
       /\ \A i, j \in 1..Len(d.language.codes) :
            i < j => \E a, b \in 1..Len(LanguageCodes) :
                       /\ a < b
                       /\ LanguageCodes[a] = d.language.codes[i]
                       /\ LanguageCodes[b] = d.language.codes[j]

\* A sidecar closed after two transcripts whose languages came out of
\* order.
C31_ClosedWithTranscripts ==
  /\ files[0].exists
  /\ asr_json_lock = "none"
  /\ Len(files[0].segs) = 2
  /\ files[0].segs[1].language = "zh"
  /\ files[0].segs[2].language = "en"
  /\ json_data["segmenter"] = files[0]

\* C32 (pending counts): every count in the pending-job table is a positive
\* integer in every state; an enqueue for a path without entry creates the
\* entry at 1 and one for a path with an entry adds 1; the worker's
\* decrement stores the count less one when that is positive and otherwise
\* leaves no entry for the path, also when the entry was already gone.
C32_PendingPositive ==
  /\ [](\A p \in DOMAIN asr_pending_jobs : asr_pending_jobs[p] \in Nat \ {0})
  /\ [][\A p \in DOMAIN asr_pending_jobs' :
          (p \notin DOMAIN asr_pending_jobs => asr_pending_jobs'[p] = 1)
          /\ (p \in DOMAIN asr_pending_jobs =>
                asr_pending_jobs'[p] \in {asr_pending_jobs[p] - 1,
                                          asr_pending_jobs[p],
                                          asr_pending_jobs[p] + 1})]_vars
  /\ [][WorkerDone =>
          LET p == cur.path
              before == IF p \in DOMAIN asr_pending_jobs
                        THEN asr_pending_jobs[p] ELSE 0
          IN IF before >= 2
             THEN p \in DOMAIN asr_pending_jobs'
                    /\ asr_pending_jobs'[p] = before - 1
             ELSE p \notin DOMAIN asr_pending_jobs']_vars

\* The worker comes to the decrement of a job whose entry is gone: the
\* archive of its path was reopened in the same second.
C32_DecrementWithoutEntry ==
  /\ wpc = "dec"
  /\ cur.path \notin DOMAIN asr_pending_jobs
  /\ live_json_path = cur.path

\* C33 (closing is idempotent): a close of an archive that is already
\* closed -- no writer, no archive opened since: a device error while the
\* microphone is down or on a failed reopen, stop() after a device error --
\* leaves the status of its sidecar as it finds it (which is the status of
\* the earlier close, or ok if the worker appended a transcript since).
C33_CloseIdempotent ==
  [][((Stop \/ \E present \in SUBSET Devices : DeviceError(present))
        /\ ~writer /\ live_json_path # None
        /\ files[live_json_path].status \in FinalStatuses) =>
       files'[live_json_path].status = files[live_json_path].status]_vars

\* C34 (no captured speech lost to ASR): with a transcriber the speech
\* buffer holds the samples written to the archives that no job carries
\* yet; they reach a job only through the buffer, so whenever the buffer
\* is emptied, and whenever the recorder stops with samples in it, a job
\* is enqueued in that step -- whichever way the capture loop ends or
\* restarts.
C34_NoSpeechLost ==
  [][(transcriber /\ speech_buffer.has
        /\ (~speech_buffer'.has \/ (pc # "stopped" /\ pc' = "stopped"))) =>
       nextJobId' > nextJobId]_vars

\* C35 (archive paths are unique within a run): every archive open -- the
\* first, a timed rotation, a reopen after a device switch or error --
\* yields a path no archive of the run had before; so the open truncates
\* no earlier PCM file and discards no pending count of an earlier
\* archive.
C35_UniquePaths ==
  [][(~writer /\ writer') =>
       /\ ~files[live_json_path'].exists
       /\ \A p \in Paths :
            files[p].exists =>
              /\ wav'[p] = wav[p]
              /\ (p \in DOMAIN asr_pending_jobs => p \in DOMAIN asr_pending_jobs')]_vars

\* ------------------------------------------------ the ASR worker threads
\* The threads start() and stop() create and leave behind, on one recorder
\* with a transcriber: each thread is at the queue's get ("get"), inside
\* the try block of an item ("transcribe") or has left its loop ("exited").
ThreadsUnchanged ==
  UNCHANGED <<envVars, cfgVars, storeVars, healthVars, ioVars, lockVars, devVars,
              switchVars, speechVars, segVars, segment_has_transcripts,
              deviceErrors, workerVars, files, wav, lastClose>>

\* the threads that run _asr_worker_loop
AliveWorkers == {t \in Threads : asr_threads[t].pc \in {"get", "transcribe"}}

\* start() up to the record loop: _start_asr_worker creates a thread unless
\* self._asr_worker refers to one (lines 132-140), _stop_event is cleared
StartRecorder ==
  /\ pc \in {"init", "stopped"}
  /\ LET t == Cardinality({u \in Threads : asr_threads[u].pc # "none"}) + 1
     IN IF transcriber /\ asr_worker = None
        THEN /\ t \in Threads
             /\ asr_worker' = t
             /\ asr_threads' = [asr_threads EXCEPT ![t] = [pc |-> "get", path |-> None]]
        ELSE UNCHANGED threadVars
  /\ stop_event' = FALSE
  /\ pc' = "loop"
  /\ UNCHANGED <<asr_queue, asr_pending_jobs, nextJobId>>
  /\ ThreadsUnchanged

\* _queue_asr_segment, called by the record loop (lines 937-946)
QueueAsrSegment ==
  /\ pc = "loop"
  /\ transcriber
  /\ nextJobId < MaxJobs
  /\ asr_pending_jobs' = PendingSet(0, PendingGet(0) + 1)
  /\ asr_queue' = Append(asr_queue, [id |-> nextJobId, path |-> 0, len |-> ChunkLen])
  /\ nextJobId' = nextJobId + 1
  /\ UNCHANGED <<threadVars, ioVars, stopVars, pc>>
  /\ ThreadsUnchanged

\* stop() up to the join: the flag is set and _stop_asr_worker puts the
\* sentinel (lines 1081-1088, 142-145)
StopRecorder ==
  /\ pc = "loop"
  /\ stop_event' = TRUE
  /\ IF asr_worker = None
     THEN pc' = "stopped" /\ UNCHANGED asr_queue
     ELSE pc' = "join" /\ asr_queue' = Append(asr_queue, Sentinel)
  /\ UNCHANGED <<threadVars, ioVars, asr_pending_jobs, nextJobId>>
  /\ ThreadsUnchanged

\* self._asr_worker.join(timeout=0.5) returns -- the thread has ended, or
\* the half second is over with a transcription still running -- and the
\* reference is dropped (lines 146-147)
JoinAsrWorker ==
  /\ pc = "join"
  /\ asr_threads[asr_worker].pc \in {"exited", "transcribe"}
  /\ asr_worker' = None
  /\ pc' = "stopped"
  /\ UNCHANGED <<asr_threads, stopVars, asr_queue, asr_pending_jobs, nextJobId>>
  /\ ThreadsUnchanged

\* item = self._asr_queue.get(); the sentinel ends the loop (lines 150-154)
AsrWorkerGet(t) ==
  /\ asr_threads[t].pc = "get"
  /\ asr_queue # <<>>
  /\ asr_queue' = Tail(asr_queue)
  /\ asr_threads' = [asr_threads EXCEPT ![t] =
                       IF Head(asr_queue) = Sentinel
                       THEN [pc |-> "exited", path |-> None]
                       ELSE [pc |-> "transcribe", path |-> Head(asr_queue).path]]
  /\ UNCHANGED <<asr_worker, stopVars, pc, asr_pending_jobs, nextJobId>>
  /\ ThreadsUnchanged

\* the try block ends and the finally clause counts the job down
\* (lines 155-182)
AsrWorkerDone(t) ==
  /\ asr_threads[t].pc = "transcribe"
  /\ asr_pending_jobs' = CountDown(asr_threads[t].path)
  /\ asr_threads' = [asr_threads EXCEPT ![t] = [pc |-> "get", path |-> None]]
  /\ UNCHANGED <<asr_worker, stopVars, pc, asr_queue, nextJobId>>
  /\ ThreadsUnchanged

InitThreads ==
  /\ InitState
  /\ transcriber = TRUE
  /\ max_segment = SecLen
  /\ auto_switch_enabled = FALSE
  /\ requested_default_device = TRUE

NextThreads ==
  \/ StartRecorder
  \/ QueueAsrSegment
  \/ StopRecorder
  \/ JoinAsrWorker
  \/ \E t \in Threads : AsrWorkerGet(t)
  \/ \E t \in Threads : AsrWorkerDone(t)

SpecThreads == InitThreads /\ [][NextThreads]_vars

\* C36 (one ASR worker): at most one thread runs the worker loop at any
\* time, for every sequence of start() and stop(), also when a join timed
\* out on a transcription.
C36_OneWorker == Cardinality(AliveWorkers) <= 1

\* C37 (recording while open): from the moment _init_live_json has written
\* the sidecar of an archive until the segmenter closes the archive, the
\* sidecar's status is recording.
C37_RecordingWhileOpen ==
  (writer /\ pc # "open_init" /\ live_json_path # None) =>
    files[live_json_path].status = "recording"

\* C38 (job labels): for every job a block enqueues, start_iso is the
\* stream time of the first sample of the job's audio and end_iso that of
\* the position right after its last sample, hence start_iso <= end_iso;
\* also when the audio holds two speech runs less than min_silence apart.
C38_JobLabels ==
  [][\A evs \in EventSeqs :
       (transcriber /\ ProcessBlock(evs) /\ ProcessChunk(evs).job # None) =>
         LET s == ProcessChunk(evs)
         IN /\ s.start_iso = stream_start_time + s.audio.first
            /\ s.end_iso = stream_start_time + s.audio.last
            /\ s.start_iso <= s.end_iso]_vars

\* ------------------------------------------- round-robin probing, for ever
\* The scans of a recorder that never hears speech, on a machine whose
\* device list does not change and where somebody speaks into one of the
\* other microphones (loud_device): every probe of that one measures
\* LoudLevel, every probe of another one 0.  The settings
\* auto_switch_confirmations and auto_switch_max_candidates_per_scan are
\* drawn at the start.  Wall-clock time and the sample count are not
\* followed in these runs, which go on for ever: what is kept of them is
\* that the scan interval elapses between two scans.
LoudLevel == 4
QuietInputLevels == {0, MinRms}

InitRoundRobin ==
  /\ InitRecorder
  /\ ~transcriber
  /\ max_segment = SecLen
  /\ auto_switch_enabled = TRUE
  /\ requested_default_device = FALSE
  /\ device = 0
  /\ query_devices \in {DeviceTable(present) :
                          present \in {p \in SUBSET SwitchDevices : 0 \in p}}
  /\ LET cands == InputCandidates[DOMAIN query_devices][0]
     IN loud_device \in {cands[i] : i \in 1..Len(cands)}
  /\ auto_switch_confirmations \in 1..MaxConfirmations
  /\ auto_switch_max_candidates_per_scan \in 1..MaxPerScan
  /\ InitHealthState

\* Blocks without a VAD event are processed until the scan interval has
\* elapsed since the last scan (line 549 lets the next call through: the
\* time of the last check is as far back as the epoch is)
SilentBlocks ==
  /\ pc = "loop"
  /\ ~in_speech
  /\ last_auto_switch_check' = None
  /\ pc' = "scan"
  /\ UNCHANGED <<envVars, cfgVars, storeVars, healthVars, threadVars, ioVars, stopVars,
                 lockVars, devVars, switch_candidate, switch_candidate_hits,
                 last_switch_time, auto_switch_round_robin_offset, speechVars,
                 segVars, segment_has_transcripts, deviceErrors, workerVars,
                 asr_queue, asr_pending_jobs, files, wav, nextJobId, lastClose>>

\* what the probes of one scan measure
ProbeLevels(present) ==
  [d \in Probed(present) |-> IF d = loud_device THEN LoudLevel ELSE 0]

\* _check_auto_switch on the static list, the current input being quiet
RoundRobinScan ==
  /\ pc = "scan"
  /\ \E input_rms \in QuietInputLevels :
       CheckAutoSwitch(DOMAIN query_devices, ProbeLevels(DOMAIN query_devices),
                       input_rms)

NextRoundRobin ==
  \/ Start
  \/ Connect
  \/ InitLiveJson
  \/ SilentBlocks
  \/ RoundRobinScan

\* The orchestrator thread is scheduled and blocks keep coming.
SpecRoundRobin == InitRoundRobin /\ [][NextRoundRobin]_vars /\ WF_vars(NextRoundRobin)

\* C39 (auto-switch liveness): with one candidate loud on every probe, the
\* others silent, no speech and a static device list, the recorder
\* eventually switches to the loud candidate -- for every number of
\* candidates, every auto_switch_max_candidates_per_scan and every
\* auto_switch_confirmations.
C39_SwitchEventually == <>(device = loud_device)

\* ------------------------------------------------------ lock discipline
\* The three locks of the recorder and the two queues, as the threads use
\* them.  A thread's code is a table from its position to the
\* instructions it can take there: acquire or release a lock (the entry
\* and the exit of a with block), get from or put to a queue, or a step
\* that touches neither.  job: the instruction is on the path that
\* enqueues a speech segment.
Lockers == {"segmenter", "worker"}

Instr(op, obj, to) == [op |-> op, obj |-> obj, to |-> to, job |-> FALSE]
JobInstr(op, obj, to) == [op |-> op, obj |-> obj, to |-> to, job |-> TRUE]

\* The with block of _record_console_asr_output left open: the lock is
\* still held when the call returns.
ConsoleStateKept(to) == Instr("step", "none", to)

\* the end of the with block of _record_console_asr_output (lines 436-439)
LeaveConsoleState(to) == Instr("release", "console_state", to)

\* _record_loop from the get of a block (line 1002) to the rotation (lines
\* 1063-1065), and stop() (lines 1081-1088)
SegmenterProgram ==
  [audio_get |-> {Instr("get", "audio", "chunk"),              \* line 1002
                  Instr("step", "none", "stop_finalize")},     \* KeyboardInterrupt
   chunk |-> {Instr("step", "none", "render"),
              JobInstr("acquire", "asr_json", "queue_count")}, \* line 942
   queue_count |-> {JobInstr("release", "asr_json", "queue_put")},
   queue_put |-> {JobInstr("put", "asr", "render")},           \* line 946
   render |-> {Instr("acquire", "console_state", "render_history")},  \* line 458
   render_history |-> {Instr("release", "console_state", "scan")},
   scan |-> {Instr("step", "none", "rotate"),
             Instr("acquire", "native_stderr", "probe")},      \* line 344
   probe |-> {Instr("release", "native_stderr", "rotate")},
   rotate |-> {Instr("step", "none", "audio_get"),
               Instr("acquire", "asr_json", "close")},         \* line 863
   close |-> {Instr("release", "asr_json", "open")},
   open |-> {Instr("acquire", "asr_json", "open_pop")},        \* line 825
   open_pop |-> {Instr("release", "asr_json", "audio_get")},
   stop_finalize |-> {Instr("step", "none", "stop_close"),
                      JobInstr("acquire", "asr_json", "stop_count")},
   stop_count |-> {JobInstr("release", "asr_json", "stop_put")},
   stop_put |-> {JobInstr("put", "asr", "stop_close")},
   stop_close |-> {Instr("acquire", "asr_json", "stop_closing")},
   stop_closing |-> {Instr("release", "asr_json", "sentinel")},
   sentinel |-> {Instr("put", "asr", "join")},                 \* line 145
   join |-> {Instr("step", "none", "stopped")}]                \* line 146

\* _asr_worker_loop (lines 149-182)
WorkerProgram ==
  [queue_get |-> {Instr("get", "asr", "transcribe")},          \* line 151
   transcribe |-> {Instr("step", "none", "count"),             \* no text, or raises
                   Instr("acquire", "console_state", "console")},  \* line 436
   console |-> {LeaveConsoleState("append")},
   append |-> {Instr("acquire", "asr_json", "append_write")},  \* line 915
   append_write |-> {Instr("release", "asr_json", "count")},
   count |-> {Instr("acquire", "asr_json", "counting")},       \* line 176
   counting |-> {Instr("release", "asr_json", "queue_get")}]

Position(t) == IF t = "segmenter" THEN pc ELSE wpc

Program(t) == IF t = "segmenter" THEN SegmenterProgram ELSE WorkerProgram

Instructions(t) ==
  IF Position(t) \in DOMAIN Program(t) THEN Program(t)[Position(t)] ELSE {}

Holder(lock) ==
  IF lock = "asr_json" THEN asr_json_lock
  ELSE IF lock = "console_state" THEN console_state_lock
  ELSE native_stderr_lock

RecorderLocks == {"asr_json", "console_state", "native_stderr"}

HeldBy(t) == {lock \in RecorderLocks : Holder(lock) = t}

SetHolder(lock, t) ==
  /\ asr_json_lock' = IF lock = "asr_json" THEN t ELSE asr_json_lock
  /\ console_state_lock' = IF lock = "console_state" THEN t ELSE console_state_lock
  /\ native_stderr_lock' = IF lock = "native_stderr" THEN t ELSE native_stderr_lock

MoveTo(t, to) ==
  /\ pc' = IF t = "segmenter" THEN to ELSE pc
  /\ wpc' = IF t = "worker" THEN to ELSE wpc

LocksUnchanged ==
  UNCHANGED <<envVars, cfgVars, storeVars, healthVars, threadVars, stopVars,
              json_data, devVars, switchVars, speechVars, segVars,
              segment_has_transcripts, deviceErrors, cur, asr_outcome,
              asr_pending_jobs, files, wav, lastClose>>

\* start(): the worker thread is started, the capture loop entered
StartThreads ==
  /\ pc = "init"
  /\ pc' = "audio_get"
  /\ wpc' = "queue_get"
  /\ UNCHANGED <<ioVars, asr_json_lock, asr_queue, nextJobId>>
  /\ LocksUnchanged

\* _audio_callback: self._audio_queue.put(indata.copy()) (line 975)
AudioCallback ==
  /\ pc \notin {"init", "stopped"}
  /\ audio_queue < MaxAudioBlocks
  /\ audio_queue' = audio_queue + 1
  /\ UNCHANGED <<console_state_lock, native_stderr_lock, asr_json_lock, pc, wpc,
                 asr_queue, nextJobId>>
  /\ LocksUnchanged

\* `with lock:` is entered once the lock is free
Acquire(t) ==
  \E i \in Instructions(t) :
    /\ i.op = "acquire"
    /\ i.job => nextJobId < MaxJobs
    /\ Holder(i.obj) = "none"
    /\ SetHolder(i.obj, t)
    /\ MoveTo(t, i.to)
    /\ UNCHANGED <<audio_queue, asr_queue, nextJobId>>
    /\ LocksUnchanged

\* the with block is left
Release(t) ==
  \E i \in Instructions(t) :
    /\ i.op = "release"
    /\ SetHolder(i.obj, "none")
    /\ MoveTo(t, i.to)
    /\ UNCHANGED <<audio_queue, asr_queue, nextJobId>>
    /\ LocksUnchanged

\* queue.get(): returns once an item is there; the sentinel ends the worker
QueueGet(t) ==
  \E i \in Instructions(t) :
    /\ i.op = "get"
    /\ IF i.obj = "audio"
       THEN /\ audio_queue > 0
            /\ audio_queue' = audio_queue - 1
            /\ MoveTo(t, i.to)
            /\ UNCHANGED asr_queue
       ELSE /\ asr_queue # <<>>
            /\ asr_queue' = Tail(asr_queue)
            /\ MoveTo(t, IF Head(asr_queue) = Sentinel THEN "exited" ELSE i.to)
            /\ UNCHANGED audio_queue
    /\ UNCHANGED <<console_state_lock, native_stderr_lock, asr_json_lock, nextJobId>>
    /\ LocksUnchanged

\* self._asr_queue.put(...): a speech segment, or the sentinel
QueuePut(t) ==
  \E i \in Instructions(t) :
    /\ i.op = "put"
    /\ asr_queue' = Append(asr_queue,
                      IF i.job THEN [id |-> nextJobId, path |-> 0, len |-> ChunkLen]
                      ELSE Sentinel)
    /\ nextJobId' = IF i.job THEN nextJobId + 1 ELSE nextJobId
    /\ MoveTo(t, i.to)
    /\ UNCHANGED <<ioVars, asr_json_lock>>
    /\ LocksUnchanged

\* code that touches neither a lock nor a queue
Step(t) ==
  \E i \in Instructions(t) :
    /\ i.op = "step"
    /\ i.job => nextJobId < MaxJobs
    /\ MoveTo(t, i.to)
    /\ UNCHANGED <<ioVars, asr_json_lock, asr_queue, nextJobId>>
    /\ LocksUnchanged

InitLocks ==
  /\ InitState
  /\ transcriber = TRUE
  /\ max_segment = SecLen
  /\ auto_switch_enabled = TRUE
  /\ requested_default_device = FALSE

NextLocks ==
  \/ StartThreads
  \/ AudioCallback
  \/ \E t \in Lockers : Acquire(t)
  \/ \E t \in Lockers : Release(t)
  \/ \E t \in Lockers : QueueGet(t)
  \/ \E t \in Lockers : QueuePut(t)
  \/ \E t \in Lockers : Step(t)

SpecLocks == InitLocks /\ [][NextLocks]_vars

\* C40 (lock discipline): no thread holds two of the recorder's locks, or
\* asks for one while it holds another; no thread stands at a queue
\* operation with a lock held; and a thread that holds a lock can always
\* take its next step, the release -- so no thread waits for ever on a
\* lock, in any interleaving.
C40_LockDiscipline ==
  \A t \in Lockers :
    /\ Cardinality(HeldBy(t)) <= 1
    /\ HeldBy(t) # {} =>
         /\ Instructions(t) # {}
         /\ \A i \in Instructions(t) : i.op = "release" /\ Holder(i.obj) = t
    /\ \A lock \in RecorderLocks : Holder(lock) \in Lockers \cup {"none"}

\* The worker stands at the with block of _append_live_segment while the
\* segmenter is inside the one of _finalize_live_json, with a job behind
\* the worker in the queue and a block waiting in the audio queue.
C40_WorkerWaitsForSidecar ==
  /\ wpc = "append"
  /\ pc = "close"
  /\ asr_json_lock = "segmenter"
  /\ asr_queue # <<>>
  /\ audio_queue > 0

=============================================================================
